---- MODULE Spec2Model ----
(***************************************************************************)
(* Verification model of the copenhagenbot stock-analysis scripts:         *)
(*   - the three mode analyzers (modes/daytrade.py, modes/swing.py,        *)
(*     modes/longterm.py) fed through stock_screener.build_mode_input,     *)
(*   - the price-target calculators (signal_generator.generate_buy_signals *)
(*     and stock_screener.analyze_entry_opportunity),                      *)
(*   - the stop-loss, take-profit and overheating calculators              *)
(*     (risk_manager.py, signal_generator.generate_sell_signals),          *)
(*   - the investor-flow pattern detector (pattern_detector.py),           *)
(*   - the indicator engine (moving averages, RSI, MACD),                  *)
(*   - the alert throttle and main loop of signal_watcher.py.              *)
(*                                                                         *)
(* Numbers.  Prices, moving averages and RSI are integers.  volume_ratio   *)
(* is carried in tenths (2.0 is 20).  A Python None is the value None, a   *)
(* pandas/float NaN is the value NaN; both lie outside every input domain. *)
(* Korean status and reason strings of the source are given ASCII names;   *)
(* the original text stands in the comment next to each name.              *)
(***************************************************************************)
EXTENDS Integers, Sequences, FiniteSets, TLC

\* the call of a pure function: its name, its arguments, its result
VARIABLES op, arg, res
\* signal_watcher: clock, environment, state files, and per process the
\* position, the loaded configuration, the AlertState (signature and dict),
\* the loop index, the alerts left to handle, the context dict shared by the
\* alerts of the watch rule, the wake-up time and the open-handle flag
VARIABLES now, env, file, pc, cfg, st, mem, idx, pending, ruleCtx, wake, dirty
\* history of the sends and of the saves
VARIABLES sendlog, persisted

pureVars == <<op, arg, res>>
watcherVars == <<now, env, file, pc, cfg, st, mem, idx, pending, ruleCtx, wake, dirty,
                 sendlog, persisted>>
vars == <<pureVars, watcherVars>>

\* no watcher runs while a pure function is examined
WatcherIdle ==
    /\ now = 0
    /\ env = <<>>
    /\ file = <<>>
    /\ pc = <<>>
    /\ cfg = <<>>
    /\ st = <<>>
    /\ mem = <<>>
    /\ idx = <<>>
    /\ pending = <<>>
    /\ ruleCtx = <<>>
    /\ wake = <<>>
    /\ dirty = <<>>
    /\ sendlog = <<>>
    /\ persisted = <<>>

(***************************************************************************)
(* Python values                                                           *)
(***************************************************************************)
None == -999999
NaN == -999998
\* None where a dict is expected
NoDict == [none |-> TRUE]

\* bool(x) for a float-or-None: None and 0.0 are falsy, NaN is truthy
Truthy(x) == x # None /\ x # 0

\* float comparisons: every comparison with NaN is False
Lt(a, b) == a # NaN /\ b # NaN /\ a < b
Le(a, b) == a # NaN /\ b # NaN /\ a <= b
Gt(a, b) == Lt(b, a)
Ge(a, b) == Le(b, a)

Abs(x) == IF x < 0 THEN -x ELSE x

\* abs(price - ma) / ma <= num/den   (ma is truthy where this is called)
NearMA(price, ma, num, den) ==
    /\ price # NaN
    /\ ma # NaN
    /\ IF ma > 0 THEN den * Abs(price - ma) <= num * ma
                 ELSE den * Abs(price - ma) >= num * ma

\* the elements of a list that are present, in list order
Labels(flags) == SelectSeq(flags, LAMBDA f : f # "")
Flag(cond, label) == IF cond THEN label ELSE ""

(***************************************************************************)
(* stock_screener._compute_ma_slope and build_mode_input                   *)
(* A data frame is a record of its columns' tails; `latest' is its last    *)
(* row.  A column that is absent from the frame is the empty sequence.     *)
(***************************************************************************)
_safe_float(value) == value

\* mutant: iloc[-lookback] instead of iloc[-(lookback + 1)]
_compute_ma_slope_OffByOne(column, lookback) ==
    IF Len(column) <= lookback THEN None
    ELSE LET current == column[Len(column)]
             previous == column[Len(column) - lookback + 1]
         IN  IF current = NaN \/ previous = NaN THEN None
             ELSE current - previous

_compute_ma_slope(column, lookback) ==
    IF Len(column) <= lookback THEN None
    ELSE LET current == column[Len(column)]
             previous == column[Len(column) - lookback]
         IN  IF current = NaN \/ previous = NaN THEN None
             ELSE current - previous

build_mode_input(df, latest, current_price, fundamentals) ==
    [current_price |-> current_price,
     ma5 |-> _safe_float(latest.MA5),
     ma20 |-> _safe_float(latest.MA20),
     ma60 |-> _safe_float(latest.MA60),
     ma20_slope |-> _compute_ma_slope(df.MA20, 3),
     ma60_slope |-> _compute_ma_slope(df.MA60, 5),
     rsi |-> _safe_float(latest.RSI),
     volume_ratio |-> _safe_float(latest.volume_ratio),
     macd |-> _safe_float(latest.MACD),
     macd_signal |-> _safe_float(latest.MACD_Signal),
     fundamentals |-> fundamentals]

(***************************************************************************)
(* modes/daytrade.py                                                       *)
(***************************************************************************)
DT_STOP_LOSS_PCT == 2

DT_EXIT == "daytrade_sell_timing_imminent"   \* "단타 매도 타이밍 임박"
DT_ENTRY == "daytrade_buy_candidate"         \* "단타 매수 후보"
DT_NEUTRAL == "daytrade_wait"                \* "단타 관망 구간"

\* price * (1 - pct/100), in hundredths of the price unit; None without a price
StopLossPrice_Flat(price, pct) == IF Truthy(price) THEN price * 100 - pct ELSE None
StopLossPrice(price, pct) == IF Truthy(price) THEN price * (100 - pct) ELSE None

\* mutant: the entry branch tested before the exit branch
ModeResult_EntryFirst(mode, entry_signal, exit_signal, reasons, exit_reasons, exit_status, entry_status, neutral_status, neutral_reason, price, pct) ==
    LET branch == IF entry_signal /\ reasons # <<>> THEN "entry"
                  ELSE IF exit_signal /\ exit_reasons # <<>> THEN "exit"
                  ELSE "neutral"
        combined == IF exit_reasons # <<>> THEN exit_reasons ELSE reasons
    IN  [mode |-> mode,
         entry_signal |-> entry_signal,
         exit_signal |-> exit_signal,
         status |-> CASE branch = "exit" -> exit_status
                      [] branch = "entry" -> entry_status
                      [] OTHER -> neutral_status,
         reason |-> CASE branch = "exit" -> exit_reasons
                      [] branch = "entry" -> reasons
                      [] OTHER -> IF combined # <<>> THEN combined ELSE <<neutral_reason>>,
         stop_loss_pct |-> pct,
         stop_loss_price |-> StopLossPrice(price, pct)]

ModeResult(mode, entry_signal, exit_signal, reasons, exit_reasons, exit_status, entry_status, neutral_status, neutral_reason, price, pct) ==
    LET branch == IF exit_signal /\ exit_reasons # <<>> THEN "exit"
                  ELSE IF entry_signal /\ reasons # <<>> THEN "entry"
                  ELSE "neutral"
        combined == IF exit_reasons # <<>> THEN exit_reasons ELSE reasons
    IN  [mode |-> mode,
         entry_signal |-> entry_signal,
         exit_signal |-> exit_signal,
         status |-> CASE branch = "exit" -> exit_status
                      [] branch = "entry" -> entry_status
                      [] OTHER -> neutral_status,
         reason |-> CASE branch = "exit" -> exit_reasons
                      [] branch = "entry" -> reasons
                      [] OTHER -> IF combined # <<>> THEN combined ELSE <<neutral_reason>>,
         stop_loss_pct |-> pct,
         stop_loss_price |-> StopLossPrice(price, pct)]

dt_near_ma5(price, ma5) ==
    IF Truthy(price) /\ Truthy(ma5) THEN NearMA(price, ma5, 12, 1000) ELSE FALSE
\* mutant: volume_ratio > 2.0
dt_vol_ok_Strict(volume_ratio) == volume_ratio # None /\ Gt(volume_ratio, 20)
dt_vol_ok(volume_ratio) == volume_ratio # None /\ Ge(volume_ratio, 20)
dt_rsi_ok(rsi) == rsi # None /\ Le(35, rsi) /\ Le(rsi, 45)
dt_exit_rsi(rsi) == rsi # None /\ Ge(rsi, 70)
dt_exit_ma(price, ma5) == Truthy(price) /\ Truthy(ma5) /\ Lt(price, ma5)

daytrade_analyze(data) ==
    LET price == _safe_float(data.current_price)
        ma5 == _safe_float(data.ma5)
        rsi == _safe_float(data.rsi)
        volume_ratio == _safe_float(data.volume_ratio)
        near_ma5 == dt_near_ma5(price, ma5)
        vol_ok == dt_vol_ok(volume_ratio)
        rsi_ok == dt_rsi_ok(rsi)
        reasons == Labels(<<Flag(near_ma5, "MA5_near_pullback"),   \* "MA5 근처 눌림"
                            Flag(vol_ok, "volume_x"),               \* "거래량 N배"
                            Flag(rsi_ok, "RSI_value")>>)            \* "RSI N"
        entry_signal == near_ma5 /\ vol_ok /\ rsi_ok
        exit_rsi == dt_exit_rsi(rsi)
        exit_ma == dt_exit_ma(price, ma5)
        exit_signal == exit_rsi \/ exit_ma
        exit_reasons == Labels(<<Flag(exit_rsi, "RSI_overheated"),   \* "RSI 과열"
                                 Flag(exit_ma, "MA5_breakdown")>>)   \* "MA5 하향 이탈"
    IN  ModeResult("daytrade", entry_signal, exit_signal, reasons, exit_reasons,
                   DT_EXIT, DT_ENTRY, DT_NEUTRAL, "conditions_unmet",  \* "조건 미충족"
                   price, DT_STOP_LOSS_PCT)

(***************************************************************************)
(* modes/swing.py                                                          *)
(***************************************************************************)
SW_STOP_LOSS_PCT == 4

SW_EXIT == "swing_exit_signal_detected"      \* "스윙 청산 신호 감지"
SW_ENTRY == "swing_entry_valid"              \* "스윙 진입 유효"
SW_NEUTRAL == "trend_continues_hold"         \* "추세 지속 중, 보유 권장"

sw_near_ma20(price, ma20) ==
    IF Truthy(price) /\ Truthy(ma20) THEN NearMA(price, ma20, 2, 100) ELSE FALSE
sw_slope_positive(ma20_slope) == ma20_slope # None /\ Gt(ma20_slope, 0)
sw_macd_bullish(macd, macd_signal) ==
    macd # None /\ macd_signal # None /\ Gt(macd, macd_signal)
sw_rsi_ok(rsi) == rsi # None /\ Le(40, rsi) /\ Le(rsi, 50)
sw_volume_ok(volume_ratio) == volume_ratio # None /\ Ge(volume_ratio, 12)
sw_entry_signal(near_ma20, slope_positive, macd_bullish, rsi_ok, volume_ok) ==
    near_ma20 /\ slope_positive /\ macd_bullish /\ rsi_ok
sw_exit_rsi(rsi) == rsi # None /\ Ge(rsi, 70)
\* mutant: a 2% tolerance band below MA20 (price < ma20 * 0.98)
sw_exit_ma_Tolerance(price, ma20) ==
    Truthy(price) /\ Truthy(ma20) /\ price # NaN /\ ma20 # NaN /\ 100 * price < 98 * ma20
sw_exit_ma(price, ma20) == Truthy(price) /\ Truthy(ma20) /\ Lt(price, ma20)

swing_analyze(data) ==
    LET price == _safe_float(data.current_price)
        ma20 == _safe_float(data.ma20)
        ma20_slope == _safe_float(data.ma20_slope)
        rsi == _safe_float(data.rsi)
        volume_ratio == _safe_float(data.volume_ratio)
        macd == _safe_float(data.macd)
        macd_signal == _safe_float(data.macd_signal)
        near_ma20 == sw_near_ma20(price, ma20)
        slope_positive == sw_slope_positive(ma20_slope)
        macd_bullish == sw_macd_bullish(macd, macd_signal)
        rsi_ok == sw_rsi_ok(rsi)
        volume_ok == sw_volume_ok(volume_ratio)
        reasons == Labels(<<Flag(near_ma20, "MA20_support"),         \* "MA20 지지 확인"
                            Flag(slope_positive, "MA20_slope_up"),   \* "MA20 상승 기울기 유지"
                            Flag(macd_bullish, "MACD_golden_cross"), \* "MACD 골든크로스"
                            Flag(rsi_ok, "RSI_value"),
                            Flag(volume_ok, "volume_x")>>)
        entry_signal == sw_entry_signal(near_ma20, slope_positive, macd_bullish,
                                        rsi_ok, volume_ok)
        exit_rsi == sw_exit_rsi(rsi)
        exit_ma == sw_exit_ma(price, ma20)
        exit_signal == exit_rsi \/ exit_ma
        exit_reasons == Labels(<<Flag(exit_rsi, "RSI_overheated"),
                                 Flag(exit_ma, "MA20_breakdown")>>)   \* "MA20 하향 이탈"
    IN  ModeResult("swing", entry_signal, exit_signal, reasons, exit_reasons,
                   SW_EXIT, SW_ENTRY, SW_NEUTRAL, "trend_check_needed",  \* "추세 확인 필요"
                   price, SW_STOP_LOSS_PCT)

(***************************************************************************)
(* modes/longterm.py                                                       *)
(***************************************************************************)
LT_STOP_LOSS_PCT == 10

LT_EXIT == "value_warning_signal"            \* "가치 경고 신호"
LT_ENTRY == "undervalued_zone"               \* "저평가 구간"
LT_NEUTRAL == "value_neutral"                \* "가치 중립"

lt_trend_ok(price, ma60, ma60_slope) ==
    IF Truthy(price) /\ Truthy(ma60)
    THEN Ge(price, ma60) /\ (ma60_slope = None \/ Ge(ma60_slope, 0))
    ELSE FALSE
lt_pe_ok(pe) == pe # None /\ Gt(pe, 0) /\ Lt(pe, 15)
lt_roe_ok(roe) == roe # None /\ Gt(roe, 8)
lt_eps_ok(eps) == eps # None /\ Gt(eps, 0)
\* price < ma60 * 0.97
lt_exit_ma(price, ma60) ==
    Truthy(price) /\ Truthy(ma60) /\ price # NaN /\ ma60 # NaN /\ 100 * price < 97 * ma60
lt_exit_eps(eps) == eps # None /\ Le(eps, 0)
lt_exit_roe_Inclusive(roe) == roe # None /\ Le(roe, 5)
lt_exit_roe(roe) == roe # None /\ Lt(roe, 5)

longterm_analyze(data) ==
    LET price == _safe_float(data.current_price)
        ma60 == _safe_float(data.ma60)
        ma60_slope == _safe_float(data.ma60_slope)
        pe == _safe_float(data.fundamentals.pe)
        roe == _safe_float(data.fundamentals.roe)
        eps == _safe_float(data.fundamentals.eps)
        trend_ok == lt_trend_ok(price, ma60, ma60_slope)
        fundamentals_reasons == Labels(<<Flag(lt_pe_ok(pe), "PER_value"),
                                         Flag(lt_roe_ok(roe), "ROE_value"),
                                         Flag(lt_eps_ok(eps), "EPS_value")>>)
        fundamentals_ok == Len(fundamentals_reasons) >= 2
        \* the fundamentals are joined into one entry of reasons
        reasons == Labels(<<Flag(trend_ok, "above_MA60_trend"),      \* "MA60 위에서 추세 유지"
                            Flag(fundamentals_reasons # <<>>, "fundamentals")>>)
        entry_signal == trend_ok /\ fundamentals_ok
        exit_ma == lt_exit_ma(price, ma60)
        exit_eps == lt_exit_eps(eps)
        exit_roe == lt_exit_roe(roe)
        exit_signal == exit_ma \/ exit_eps \/ exit_roe
        exit_reasons == Labels(<<Flag(exit_ma, "MA60_breakdown"),    \* "MA60 하향 이탈"
                                 Flag(exit_eps, "EPS_loss"),         \* "EPS 적자 전환"
                                 Flag(exit_roe, "ROE_decline")>>)    \* "ROE 저하"
    IN  ModeResult("longterm", entry_signal, exit_signal, reasons, exit_reasons,
                   LT_EXIT, LT_ENTRY, LT_NEUTRAL, "fundamentals_missing",  \* "재무 데이터 부족"
                   price, LT_STOP_LOSS_PCT)

(***************************************************************************)
(* stock_screener.run_mode_screening: the part after the frame is fetched. *)
(* It builds the mode input from the frame, runs the analyzer of the mode  *)
(* and derives the card icon and the summary bucket from the two flags.    *)
(***************************************************************************)
analyze_mode(mode, mode_input) ==
    CASE mode = "daytrade" -> daytrade_analyze(mode_input)
      [] mode = "longterm" -> longterm_analyze(mode_input)
      [] OTHER -> swing_analyze(mode_input)

screening_card(analysis) ==
    LET entry_flag == analysis.entry_signal
        exit_flag == analysis.exit_signal
    IN  [analysis |-> analysis,
         entry_flag |-> entry_flag,
         exit_flag |-> exit_flag,
         \* skipped by --entry-only / --exit-only / --signals-only
         skip_entry_only |-> (~entry_flag \/ exit_flag),
         skip_exit_only |-> ~exit_flag,
         skip_signals_only |-> ~(entry_flag \/ exit_flag),
         bucket |-> IF exit_flag THEN "negative"
                    ELSE IF entry_flag THEN "positive" ELSE "neutral",
         icon |-> IF entry_flag /\ ~exit_flag THEN "green"
                  ELSE IF exit_flag THEN "red" ELSE "yellow"]

run_mode_screening(mode, df, current_price, fundamentals) ==
    LET latest == df.latest
        mode_input == build_mode_input(df, latest, current_price, fundamentals)
    IN  screening_card(analyze_mode(mode, mode_input))

(***************************************************************************)
(* Input domains of the mode analyzers                                     *)
(***************************************************************************)
\* the last values of a moving-average column: `lookback' or `lookback'+1
\* rows (one too few, or just enough, for the slope), or no column at all
ColTails(D, lookback) ==
    {<<>>} \cup
    UNION {{[i \in 1..n |-> IF i = 1 THEN first ELSE last] : first \in D, last \in D}
           : n \in {lookback, lookback + 1}}

LastOf(column) == IF column = <<>> THEN None ELSE column[Len(column)]

NoFundamentals == [pe |-> None, roe |-> None, eps |-> None]

\* a frame whose last row carries the given indicator values
Frame(ma5, ma20col, ma60col, rsi, volume_ratio, macd, macd_signal) ==
    [MA20 |-> ma20col,
     MA60 |-> ma60col,
     latest |-> [MA5 |-> ma5, MA20 |-> LastOf(ma20col), MA60 |-> LastOf(ma60col),
                 RSI |-> rsi, volume_ratio |-> volume_ratio,
                 MACD |-> macd, MACD_Signal |-> macd_signal]]

DT_Prices == {None, 987, 988, 1000, 1012, 1013}
DT_MA5 == {None, NaN, 1000}
DT_RSI == {None, NaN, 34, 35, 40, 45, 46, 69, 70, 71}
DT_VolumeRatio == {None, NaN, 19, 20, 25}

SW_Prices == {None, 979, 980, 990, 1000, 1020, 1021}
SW_MA20 == {NaN, 990, 1000, 1010}
SW_RSI == {None, NaN, 39, 40, 50, 51, 70}
SW_MACD == {None, NaN, 0, 1}
SW_VolumeRatio == {None, 11, 12}

LT_Prices == {None, 96, 97, 100, 101}
LT_MA60 == {NaN, 99, 100}
LT_PE == {None, 0, 10, 15}
LT_ROE == {None, 4, 5, 8, 9}
LT_EPS == {None, -1, 0, 1}

(***************************************************************************)
(* The inputs of one screening: the mode, the frame of the ticker, its     *)
(* current price and (longterm only) its fundamentals                      *)
(***************************************************************************)
DaytradeInput(price, ma5, rsi, vr) ==
    [mode |-> "daytrade",
     df |-> Frame(ma5, <<>>, <<>>, rsi, vr, None, None),
     current_price |-> price,
     fundamentals |-> NoFundamentals]

SwingInput(price, ma20col, rsi, vr, macd, macd_signal) ==
    [mode |-> "swing",
     df |-> Frame(None, ma20col, <<>>, rsi, vr, macd, macd_signal),
     current_price |-> price,
     fundamentals |-> NoFundamentals]

LongtermInput(price, ma60col, pe, roe, eps) ==
    [mode |-> "longterm",
     df |-> Frame(None, <<>>, ma60col, None, None, None, None),
     current_price |-> price,
     fundamentals |-> [pe |-> pe, roe |-> roe, eps |-> eps]]

DrawModeInput ==
    \/ \E price \in DT_Prices, ma5 \in DT_MA5, rsi \in DT_RSI, vr \in DT_VolumeRatio :
           arg = DaytradeInput(price, ma5, rsi, vr)
    \/ \E price \in SW_Prices, ma20col \in ColTails(SW_MA20, 3), rsi \in SW_RSI,
          vr \in SW_VolumeRatio, macd \in SW_MACD, macd_signal \in SW_MACD :
           arg = SwingInput(price, ma20col, rsi, vr, macd, macd_signal)
    \/ \E price \in LT_Prices, ma60col \in ColTails(LT_MA60, 5),
          pe \in LT_PE, roe \in LT_ROE, eps \in LT_EPS :
           arg = LongtermInput(price, ma60col, pe, roe, eps)

(***************************************************************************)
(* Actions: the screening of the drawn ticker in its mode                  *)
(***************************************************************************)
Screen(mode) ==
    /\ op = "init"
    /\ arg.mode = mode
    /\ op' = mode
    /\ arg' = arg
    /\ res' = run_mode_screening(mode, arg.df, arg.current_price, arg.fundamentals)
    /\ UNCHANGED watcherVars

AnalyzeDaytrade == Screen("daytrade")
AnalyzeSwing == Screen("swing")
AnalyzeLongterm == Screen("longterm")

(***************************************************************************)
(* Specifications                                                          *)
(***************************************************************************)
InitModes ==
    /\ op = "init"
    /\ WatcherIdle
    /\ DrawModeInput
    /\ res = <<>>

NextModes == AnalyzeDaytrade \/ AnalyzeSwing \/ AnalyzeLongterm

SpecModes == InitModes /\ [][NextModes]_vars

(***************************************************************************)
(* signal_generator.py: generate_buy_signals                               *)
(*                                                                         *)
(* A price frame is the sequence of its closes (column "종가"), oldest     *)
(* first.  Moving averages and price levels are exact fractions num/den;   *)
(* round() is Python's round-half-to-even.  The `days' estimate and the    *)
(* texts of a signal do not feed any price and are not carried.            *)
(***************************************************************************)
SHAKEOUT == "shakeout"       \* "물량_털기"
UPTREND == "uptrend"         \* "상승_신호"
BREAKDOWN == "breakdown"     \* "진짜_이탈"
UNCLEAR == "unclear"         \* "불명확"

Frac(num, den) == [num |-> num, den |-> den]
\* r * (a / b)
Times(r, a, b) == Frac(r.num * a, r.den * b)

\* round(r) for r >= 0: nearest integer, ties to the even one
PyRound(r) ==
    LET q == r.num \div r.den
        twice == 2 * (r.num % r.den)
    IN  IF twice < r.den THEN q
        ELSE IF twice > r.den THEN q + 1
        ELSE IF q % 2 = 0 THEN q ELSE q + 1

RECURSIVE SumLast(_, _)
\* the sum of the last n entries of a sequence of at least n entries
SumLast(closes, n) ==
    IF n = 0 THEN 0 ELSE closes[Len(closes)] + SumLast(SubSeq(closes, 1, Len(closes) - 1), n - 1)

\* closes.rolling(window).mean().iloc[-1]: NaN until `window' closes exist
RollingMeanLast(closes, window) ==
    IF Len(closes) < window THEN Frac(NaN, 1) ELSE Frac(SumLast(closes, window), window)

\* pd.notna(x) for a fraction
notna(x) == x.num # NaN

\* pattern_info.get('pattern_type', '불명확')
PatternTypeOf(pattern_info) ==
    IF "pattern_type" \in DOMAIN pattern_info THEN pattern_info.pattern_type ELSE UNCLEAR

generate_buy_signals(closes, pattern_info, current_price) ==
    \* a missing frame (None) is the frame without rows
    IF closes = <<>> THEN NoDict
    ELSE
    LET ma5_last == RollingMeanLast(closes, 5)
        ma20_last == RollingMeanLast(closes, 20)
        ma5 == IF notna(ma5_last) THEN ma5_last ELSE Frac(current_price, 1)
        ma20 == IF notna(ma20_last) THEN ma20_last ELSE Frac(current_price, 1)
        pattern_type == PatternTypeOf(pattern_info)
    IN  CASE pattern_type = SHAKEOUT ->
               [buy_1 |-> [price |-> PyRound(Times(ma5, 99, 100))],
                buy_2 |-> [price |-> PyRound(Times(ma20, 985, 1000))],
                strategy |-> "shakeout_buy_pullback"]
          [] pattern_type = UPTREND ->
               [buy_1 |-> [price |-> PyRound(Times(Frac(current_price, 1), 98, 100))],
                buy_2 |-> [price |-> PyRound(Times(ma5, 97, 100))],
                strategy |-> "uptrend_buy_actively"]
          [] pattern_type = BREAKDOWN ->
               [buy_1 |-> NoDict, buy_2 |-> NoDict, strategy |-> "breakdown_no_buy"]
          [] OTHER ->
               [buy_1 |-> [price |-> PyRound(Times(ma20, 97, 100))],
                buy_2 |-> [price |-> PyRound(Times(ma20, 95, 100))],
                strategy |-> "unclear_conservative"]

(***************************************************************************)
(* Inputs of the signal generator: a frame of OldBars closes at one level  *)
(* followed by NewBars closes at another, a pattern and the current price  *)
(***************************************************************************)
MaxNewBars == 5
OldBarCounts == {0, 2, 17, 20}
CloseLevels == {90, 100, 110}
CurrentPrices == {95, 100, 105, 120}
PatternInfos ==
    {[pattern_type |-> t, confidence |-> 75] : t \in {SHAKEOUT, UPTREND, BREAKDOWN, UNCLEAR}}
    \cup {[confidence |-> 0]}

StepSeries(nOld, old, nNew, new) ==
    [i \in 1..(nOld + nNew) |-> IF i <= nOld THEN old ELSE new]

DrawSignalInput ==
    \E nOld \in OldBarCounts, nNew \in 0..MaxNewBars, old \in CloseLevels, new \in CloseLevels,
       pattern_info \in PatternInfos, current_price \in CurrentPrices :
        /\ nOld = 0 => old = new
        /\ nNew = 0 => nOld = 0
        /\ arg = [closes |-> StepSeries(nOld, old, nNew, new),
                  pattern_info |-> pattern_info,
                  current_price |-> current_price]

GenerateBuySignals ==
    /\ op = "init"
    /\ op' = "generate_buy_signals"
    /\ arg' = arg
    /\ res' = generate_buy_signals(arg.closes, arg.pattern_info, arg.current_price)
    /\ UNCHANGED watcherVars

InitSignals ==
    /\ op = "init"
    /\ WatcherIdle
    /\ DrawSignalInput
    /\ res = <<>>

NextSignals == GenerateBuySignals

SpecSignals == InitSignals /\ [][NextSignals]_vars

(***************************************************************************)
(* risk_manager.py (calculate_stop_loss, assess_overheating) and           *)
(* signal_generator.generate_sell_signals                                  *)
(*                                                                         *)
(* A price frame is the record of its closes (column "종가"), of the flag  *)
(* has_ma20 (the frame carries the MA20 column of the indicator engine,    *)
(* the 20-bar rolling mean of the closes) and of rsi, the last value of    *)
(* its RSI column: a number, NaN, or None when the frame has no such       *)
(* column.  Levels are exact fractions; loss_pct and price_vs_ma, rounded  *)
(* to two decimals by the source, are carried in hundredths.               *)
(***************************************************************************)
PriceFrame(closes, has_ma20, rsi) == [closes |-> closes, has_ma20 |-> has_ma20, rsi |-> rsi]

\* a < b for fractions with positive denominators
FracLt(a, b) == a.num * b.den < b.num * a.den
FracMin(a, b) == IF FracLt(b, a) THEN b ELSE a

\* price_df['MA20'].iloc[-1]; calculate_stop_loss adds the column when absent
MA20Last(frame) == RollingMeanLast(frame.closes, 20)

calculate_stop_loss(frame, buy_price, pattern_info) ==
    IF frame.closes = <<>> THEN NoDict
    ELSE
    LET ma20 == IF notna(MA20Last(frame)) THEN MA20Last(frame) ELSE Frac(buy_price, 1)
        pattern_type == PatternTypeOf(pattern_info)
        bp == Frac(buy_price, 1)
        stop_loss == CASE pattern_type \in {SHAKEOUT, UPTREND} -> Times(ma20, 97, 100)
                       [] pattern_type = BREAKDOWN -> Times(bp, 95, 100)
                       [] OTHER -> FracMin(Times(ma20, 97, 100), Times(bp, 97, 100))
        reason == CASE pattern_type \in {SHAKEOUT, UPTREND} -> "ma20_break_3pct"
                    [] pattern_type = BREAKDOWN -> "fast_cut_5pct"
                    [] OTHER -> "conservative_3pct"
    \* the returned loss_pct, a binary float rounded to two decimals, is not
    \* carried: it is derived from stop_loss and buy_price and feeds nothing
    IN  [stop_loss |-> PyRound(stop_loss),
         reason |-> reason]

\* rsi = price_df['RSI'].iloc[-1] if 'RSI' in price_df.columns else 50
RsiOrDefault(frame) == IF frame.rsi = None THEN 50 ELSE frame.rsi

generate_sell_signals_NoRsiAdjust(frame, pattern_info, current_price, buy_price_in) ==
    IF frame.closes = <<>> THEN NoDict
    ELSE
    LET bp == Frac(IF buy_price_in = None THEN current_price ELSE buy_price_in, 1)
        pattern_type == PatternTypeOf(pattern_info)
    IN  [take_profit_1 |-> PyRound(Times(bp, IF pattern_type \in {UPTREND, SHAKEOUT} THEN 106
                                             ELSE IF pattern_type = BREAKDOWN THEN 103 ELSE 105, 100)),
         take_profit_2 |-> PyRound(Times(bp, IF pattern_type \in {UPTREND, SHAKEOUT} THEN 113
                                             ELSE IF pattern_type = BREAKDOWN THEN 105 ELSE 110, 100)),
         reason |-> <<pattern_type>>]
generate_sell_signals(frame, pattern_info, current_price, buy_price_in) ==
    IF frame.closes = <<>> THEN NoDict
    ELSE
    LET bp == Frac(IF buy_price_in = None THEN current_price ELSE buy_price_in, 1)
        rsi == RsiOrDefault(frame)
        pattern_type == PatternTypeOf(pattern_info)
        pct_1 == CASE pattern_type \in {UPTREND, SHAKEOUT} -> 106
                   [] pattern_type = BREAKDOWN -> 103
                   [] OTHER -> 105
        pct_2 == CASE pattern_type \in {UPTREND, SHAKEOUT} -> 113
                   [] pattern_type = BREAKDOWN -> 105
                   [] OTHER -> 110
        overheated == Gt(rsi, 70)
    IN  [take_profit_1 |-> PyRound(Times(bp, IF overheated THEN 104 ELSE pct_1, 100)),
         take_profit_2 |-> PyRound(Times(bp, IF overheated THEN 108 ELSE pct_2, 100)),
         \* the reason of the pattern, with " (RSI 과열 구간)" appended
         reason |-> <<pattern_type>> \o (IF overheated THEN <<"rsi_overheated">> ELSE <<>>)]

assess_overheating(frame) ==
    IF frame.closes = <<>> THEN NoDict
    ELSE
    LET current_price == frame.closes[Len(frame.closes)]
        rsi == RsiOrDefault(frame)
        ma20 == MA20Last(frame)
        \* (current_price / ma20) * 100, or 100 without a positive MA20
        price_vs_ma == IF frame.has_ma20 /\ notna(ma20) /\ ma20.num > 0
                       THEN Frac(current_price * 100 * ma20.den, ma20.num)
                       ELSE Frac(100, 1)
        rsi_hot == Gt(rsi, 70)
        ma_hot == FracLt(Frac(115, 1), price_vs_ma)
    IN  [is_overheated |-> rsi_hot \/ ma_hot,
         rsi |-> IF rsi # NaN THEN rsi ELSE 50,
         price_vs_ma |-> PyRound(Times(price_vs_ma, 100, 1)),
         recommendation |-> IF rsi_hot THEN "rsi_overheated"
                            ELSE IF ma_hot THEN "above_ma20"
                            ELSE IF Gt(rsi, 60) THEN "rsi_rising"
                            ELSE "not_overheated"]

(***************************************************************************)
(* Inputs of the risk functions                                            *)
(***************************************************************************)
\* Buy prices and current prices are multiples of 4: no percentage of them
\* used by the targets is a half-integer, where round() would follow the
\* binary representation of the product instead of its decimal value.
RK_BuyPrices == {96, 100, 104, 120}
RK_CurrentPrices == {100, 104}
RK_RSI == {None, NaN, 50, 61, 70, 71}

DrawRiskInput ==
    \E nOld \in OldBarCounts, nNew \in 0..MaxNewBars, old \in CloseLevels, new \in CloseLevels,
       has_ma20 \in BOOLEAN, rsi \in RK_RSI, pattern_info \in PatternInfos,
       current_price \in RK_CurrentPrices, buy_price \in RK_BuyPrices \cup {None},
       fn \in {"calculate_stop_loss", "generate_sell_signals", "assess_overheating"} :
        /\ nOld = 0 => old = new
        /\ nNew = 0 => nOld = 0
        /\ fn = "calculate_stop_loss" => (buy_price # None /\ rsi = None /\ current_price = 100)
        /\ fn = "generate_sell_signals" => (nOld \in {0, 20} /\ old = 100 /\ new = 100 /\ ~has_ma20)
        /\ fn = "assess_overheating" =>
               (buy_price = None /\ current_price = 100 /\ pattern_info = [confidence |-> 0])
        /\ arg = [fn |-> fn,
                  frame |-> PriceFrame(StepSeries(nOld, old, nNew, new), has_ma20, rsi),
                  pattern_info |-> pattern_info,
                  current_price |-> current_price,
                  buy_price |-> buy_price]

CalculateStopLoss ==
    /\ op = "init"
    /\ arg.fn = "calculate_stop_loss"
    /\ op' = "calculate_stop_loss"
    /\ arg' = arg
    /\ res' = calculate_stop_loss(arg.frame, arg.buy_price, arg.pattern_info)
    /\ UNCHANGED watcherVars

GenerateSellSignals ==
    /\ op = "init"
    /\ arg.fn = "generate_sell_signals"
    /\ op' = "generate_sell_signals"
    /\ arg' = arg
    /\ res' = generate_sell_signals(arg.frame, arg.pattern_info, arg.current_price, arg.buy_price)
    /\ UNCHANGED watcherVars

AssessOverheating ==
    /\ op = "init"
    /\ arg.fn = "assess_overheating"
    /\ op' = "assess_overheating"
    /\ arg' = arg
    /\ res' = assess_overheating(arg.frame)
    /\ UNCHANGED watcherVars

InitRisk ==
    /\ op = "init"
    /\ WatcherIdle
    /\ DrawRiskInput
    /\ res = <<>>

NextRisk == CalculateStopLoss \/ GenerateSellSignals \/ AssessOverheating

SpecRisk == InitRisk /\ [][NextRisk]_vars

(***************************************************************************)
(* pattern_detector.py: analyze_investor_pattern                           *)
(*                                                                         *)
(* investor_df is a sequence of rows [foreign, institution, volume] (the   *)
(* columns 외국인_순매수, 기관_순매수, 거래량), None being the empty       *)
(* sequence.  price_df is NoDict (None) or a price frame as returned by    *)
(* fetch_technical_indicators, whose MA20 column is the 20-bar rolling     *)
(* mean of its closes (both callers pass the frame through it).            *)
(***************************************************************************)
T_BUY == "buy"           \* '매수'
T_SELL == "sell"         \* '매도'
T_NEUTRAL == "neutral"   \* '중립'
V_UP == "up"             \* '증가'
V_DOWN == "down"         \* '감소'
V_FLAT == "flat"         \* '유지'
P_RISE == "rise"         \* '상승'
P_FALL == "fall"         \* '하락'
P_NONE == "none"         \* price_trend = None
DAYS == 5

\* investor_df.tail(days)
TailRows(rows, n) == IF Len(rows) <= n THEN rows ELSE SubSeq(rows, Len(rows) - n + 1, Len(rows))

RECURSIVE SumColumn(_, _)
SumColumn(rows, column) ==
    IF rows = <<>> THEN 0 ELSE rows[1][column] + SumColumn(SubSeq(rows, 2, Len(rows)), column)

\* recent[column].mean()
ColumnMean(rows, column) == Frac(SumColumn(rows, column), Len(rows))

\* '매수' if avg > 0 else ('매도' if avg < 0 else '중립')
trend_of(avg) == IF avg.num > 0 THEN T_BUY ELSE IF avg.num < 0 THEN T_SELL ELSE T_NEUTRAL

\* mutant: a fall of exactly 10% already counts as falling volume
volume_trend_of_InclusiveDrop(recent) ==
    IF Len(recent) >= 2
    THEN LET last == recent[Len(recent)].volume
             prev == recent[Len(recent) - 1].volume
         IN  IF prev = 0 THEN (IF last > 0 THEN V_UP ELSE V_FLAT)
             ELSE IF (last - prev) * 100 > 10 * prev THEN V_UP
             ELSE IF (last - prev) * 100 <= -10 * prev THEN V_DOWN
             ELSE V_FLAT
    ELSE V_FLAT
\* volume_change = (last - prev) / prev * 100 against +10 and -10; a zero
\* previous volume divides to inf (a rise) or, with a zero last volume, NaN
volume_trend_of(recent) ==
    IF Len(recent) >= 2
    THEN LET last == recent[Len(recent)].volume
             prev == recent[Len(recent) - 1].volume
         IN  IF prev = 0 THEN (IF last > 0 THEN V_UP ELSE V_FLAT)
             ELSE IF (last - prev) * 100 > 10 * prev THEN V_UP
             ELSE IF (last - prev) * 100 < -10 * prev THEN V_DOWN
             ELSE V_FLAT
    ELSE V_FLAT

price_trend_of(price_df) ==
    IF price_df = NoDict THEN P_NONE
    ELSE IF Len(price_df.closes) >= 20 /\ notna(MA20Last(price_df))
    THEN (IF FracLt(MA20Last(price_df), Frac(price_df.closes[Len(price_df.closes)], 1))
          THEN P_RISE ELSE P_FALL)
    ELSE P_NONE

\* the decision cascade: label and confidence
classify_pattern(foreign_trend, institution_trend, volume_trend, price_trend) ==
    IF /\ foreign_trend = T_SELL /\ institution_trend = T_BUY
       /\ volume_trend \in {V_FLAT, V_UP} /\ price_trend = P_RISE
    THEN [pattern_type |-> SHAKEOUT, confidence |-> 75]
    ELSE IF foreign_trend = T_SELL /\ institution_trend = T_SELL /\ volume_trend = V_DOWN
    THEN [pattern_type |-> BREAKDOWN, confidence |-> 80]
    ELSE IF foreign_trend = T_BUY /\ institution_trend = T_BUY
    THEN [pattern_type |-> UPTREND, confidence |-> 85]
    ELSE IF foreign_trend = T_SELL /\ institution_trend \in {T_BUY, T_NEUTRAL}
    THEN (IF volume_trend = V_FLAT /\ price_trend = P_RISE
          THEN [pattern_type |-> SHAKEOUT, confidence |-> 65]
          ELSE [pattern_type |-> UNCLEAR, confidence |-> 50])
    ELSE IF institution_trend = T_SELL /\ foreign_trend \in {T_BUY, T_NEUTRAL}
    THEN [pattern_type |-> UNCLEAR, confidence |-> 55]
    ELSE [pattern_type |-> UNCLEAR, confidence |-> 50]

\* mutant: the answer for missing data carries the default confidence 50
NoInvestorData_DefaultConfidence == [pattern_type |-> UNCLEAR, confidence |-> 50, data_available |-> FALSE]
\* the answer for a missing or empty investor_df
NoInvestorData == [pattern_type |-> UNCLEAR, confidence |-> 0, data_available |-> FALSE]

analyze_investor_pattern(investor_df, price_df) ==
    IF investor_df = <<>> THEN NoInvestorData
    ELSE
    LET recent == TailRows(investor_df, DAYS)
        foreign_avg == ColumnMean(recent, "foreign")
        institution_avg == ColumnMean(recent, "institution")
        foreign_trend == trend_of(foreign_avg)
        institution_trend == trend_of(institution_avg)
        volume_trend == volume_trend_of(recent)
        price_trend == price_trend_of(price_df)
        verdict == classify_pattern(foreign_trend, institution_trend, volume_trend, price_trend)
    IN  [foreign_trend |-> foreign_trend,
         institution_trend |-> institution_trend,
         foreign_avg |-> foreign_avg,
         institution_avg |-> institution_avg,
         volume_trend |-> volume_trend,
         pattern_type |-> verdict.pattern_type,
         confidence |-> verdict.confidence,
         price_trend |-> price_trend,
         data_available |-> TRUE]

(***************************************************************************)
(* Inputs of the pattern detector: OldRows rows at one pair of net-buy     *)
(* levels followed by NewRows rows at another, the last two volumes, and   *)
(* the price frame                                                         *)
(***************************************************************************)
MaxNewRows == 3
OldRowCounts == {0, 2, 4}
NetBuyLevels == {-20, 0, 10}
\* <<previous volume, last volume>>
VolumePairs == {<<100, 89>>, <<100, 90>>, <<100, 100>>, <<100, 110>>, <<100, 111>>, <<0, 0>>, <<0, 100>>}
\* no frame, an empty one, 19 bars, and 20 or more bars ending at, above
\* and below their mean
PatternCloses ==
    {<<>>, StepSeries(17, 100, 2, 110), StepSeries(20, 100, 0, 100), StepSeries(19, 100, 1, 110),
     StepSeries(19, 100, 1, 90), StepSeries(20, 90, 3, 110), StepSeries(20, 110, 3, 90)}
PatternPriceFrames == {NoDict} \cup {PriceFrame(closes, TRUE, None) : closes \in PatternCloses}

InvestorRows(nOld, fOld, iOld, nNew, fNew, iNew, volumes) ==
    [k \in 1..(nOld + nNew) |->
        [foreign |-> IF k <= nOld THEN fOld ELSE fNew,
         institution |-> IF k <= nOld THEN iOld ELSE iNew,
         volume |-> IF k = nOld + nNew THEN volumes[2] ELSE volumes[1]]]

DrawPatternInput ==
    \E nOld \in OldRowCounts, nNew \in 0..MaxNewRows,
       fOld \in NetBuyLevels, iOld \in NetBuyLevels, fNew \in NetBuyLevels, iNew \in NetBuyLevels,
       volumes \in VolumePairs, price_df \in PatternPriceFrames :
        /\ nOld = 0 => (fOld = fNew /\ iOld = iNew)
        /\ nNew = 0 => (nOld = 0 /\ fNew = 0 /\ iNew = 0 /\ volumes = <<100, 100>>)
        /\ arg = [investor_df |-> InvestorRows(nOld, fOld, iOld, nNew, fNew, iNew, volumes),
                  price_df |-> price_df]

AnalyzeInvestorPattern ==
    /\ op = "init"
    /\ op' = "analyze_investor_pattern"
    /\ arg' = arg
    /\ res' = analyze_investor_pattern(arg.investor_df, arg.price_df)
    /\ UNCHANGED watcherVars

InitPattern ==
    /\ op = "init"
    /\ WatcherIdle
    /\ DrawPatternInput
    /\ res = <<>>

NextPattern == AnalyzeInvestorPattern

SpecPattern == InitPattern /\ [][NextPattern]_vars

(***************************************************************************)
(* The indicator engine: stock_screener.calculate_ma, calculate_rsi,       *)
(* calculate_macd, data_fetcher.fetch_technical_indicators and             *)
(* kosdaq_golden_buy.calculate_macd                                        *)
(*                                                                         *)
(* A frame is the record of its columns, each a sequence with one entry    *)
(* per bar; a column the frame does not have is the empty sequence.        *)
(* closes holds the integer closes.  The moving averages are carried in    *)
(* units of 1/PRICE_UNIT, in which the mean of 5, 20, 60 or 120 integers   *)
(* is an integer.  The exponentially weighted means, which are binary      *)
(* floats in the program, are fixed-point numbers in units of 1/FP,        *)
(* rounded down at every step; the RSI is in hundredths of a point.        *)
(***************************************************************************)
PRICE_UNIT == 120
FP == 100000
RSI_UNIT == 100

BareFrame(closes) ==
    [closes |-> closes, MA5 |-> <<>>, MA20 |-> <<>>, MA60 |-> <<>>, MA120 |-> <<>>,
     RSI |-> <<>>, MACD |-> <<>>, MACD_Signal |-> <<>>, MACD_Histogram |-> <<>>]

\* the running window sum kept by rolling(window): each bar adds its close
\* and drops the close that leaves the window.  RollingScan gives the sums
\* of the bars lo..hi from the sum carried into bar lo; it splits the range
\* in two halves, the second starting from the last sum of the first.
RECURSIVE RollingScan(_, _, _, _, _)
RollingScan(closes, window, lo, hi, carried) ==
    IF lo > hi THEN <<>>
    ELSE IF lo = hi
    THEN <<carried + closes[lo] - (IF lo > window THEN closes[lo - window] ELSE 0)>>
    ELSE LET mid == (lo + hi) \div 2
             left == RollingScan(closes, window, lo, mid, carried)
         IN  left \o RollingScan(closes, window, mid + 1, hi, left[Len(left)])

RollingSums(closes, window) == RollingScan(closes, window, 1, Len(closes), 0)

\* mutant: the mean is already reported one bar before the window is full
RollingMeanColumn_OneBarEarly(closes, window) ==
    LET sums == RollingSums(closes, window)
    IN  [i \in 1..Len(closes) |->
            IF i < window - 1 THEN NaN ELSE sums[i] * (PRICE_UNIT \div window)]
\* closes.rolling(window=window).mean(): NaN until the window is full
RollingMeanColumn(closes, window) ==
    LET sums == RollingSums(closes, window)
    IN  [i \in 1..Len(closes) |->
            IF i < window THEN NaN ELSE sums[i] * (PRICE_UNIT \div window)]

calculate_ma(df, periods) ==
    [df EXCEPT !.MA5 = IF 5 \in periods THEN RollingMeanColumn(df.closes, 5) ELSE @,
               !.MA20 = IF 20 \in periods THEN RollingMeanColumn(df.closes, 20) ELSE @,
               !.MA60 = IF 60 \in periods THEN RollingMeanColumn(df.closes, 60) ELSE @,
               !.MA120 = IF 120 \in periods THEN RollingMeanColumn(df.closes, 120) ELSE @]

\* values.ewm(alpha=num/den, adjust=False).mean(): the first mean is the
\* first value, each later one is (1 - alpha) * previous + alpha * value.
\* EwmScan gives the means of the bars lo..hi from the mean before bar lo,
\* splitting the range like RollingScan.
RECURSIVE EwmScan(_, _, _, _, _, _)
EwmScan(values, num, den, lo, hi, previous) ==
    IF lo > hi THEN <<>>
    ELSE IF lo = hi
    THEN <<((den - num) * previous + num * values[lo]) \div den>>
    ELSE LET mid == (lo + hi) \div 2
             left == EwmScan(values, num, den, lo, mid, previous)
         IN  left \o EwmScan(values, num, den, mid + 1, hi, left[Len(left)])

EwmColumn(values, num, den) ==
    IF values = <<>> THEN <<>>
    ELSE <<values[1]>> \o EwmScan(values, num, den, 2, Len(values), values[1])

\* closes.diff() with the first (NaN) entry already replaced by 0, as both
\* where(delta > 0, 0) and where(delta < 0, 0) do
DeltaColumn(closes) == [i \in 1..Len(closes) |-> IF i = 1 THEN 0 ELSE closes[i] - closes[i - 1]]

\* floor(10000 * part / whole) without leaving 32 bits
Ratio10000(part, whole) ==
    LET q == (100 * part) \div whole
        r == (100 * part) % whole
    IN  100 * q + (100 * r) \div whole

\* mutant: no saturation, every division by a zero average loss is NaN
RsiValue_NoSaturation(avg_gain, avg_loss) ==
    IF avg_loss = 0
    THEN NaN
    ELSE Ratio10000(avg_gain, avg_gain + avg_loss)
\* 100 - 100 / (1 + avg_gain / avg_loss): 0/0 is NaN, x/0 is infinite
RsiValue(avg_gain, avg_loss) ==
    IF avg_loss = 0
    THEN (IF avg_gain = 0 THEN NaN ELSE 100 * RSI_UNIT)
    ELSE Ratio10000(avg_gain, avg_gain + avg_loss)

RsiColumn(closes, period) ==
    LET delta == DeltaColumn(closes)
        gain == [i \in 1..Len(closes) |-> IF delta[i] > 0 THEN delta[i] * FP ELSE 0]
        loss == [i \in 1..Len(closes) |-> IF delta[i] < 0 THEN (-delta[i]) * FP ELSE 0]
        avg_gain == EwmColumn(gain, 1, period)
        avg_loss == EwmColumn(loss, 1, period)
    IN  [i \in 1..Len(closes) |-> RsiValue(avg_gain[i], avg_loss[i])]

calculate_rsi(df, period) == [df EXCEPT !.RSI = RsiColumn(df.closes, period)]

\* close.pct_change() * 100 with the first (NaN) entry filled with 0
PctColumn(closes) ==
    [i \in 1..Len(closes) |->
        IF i = 1 THEN 0 ELSE ((closes[i] - closes[i - 1]) * 100 * FP) \div closes[i - 1]]

\* MACD and signal line of a value column: ewm(span=12) - ewm(span=26),
\* then ewm(span=9) of the difference; span s is alpha = 2 / (s + 1)
MacdColumn(values) ==
    LET ema12 == EwmColumn(values, 2, 13)
        ema26 == EwmColumn(values, 2, 27)
    IN  [i \in 1..Len(values) |-> ema12[i] - ema26[i]]
SignalColumn(macd) == EwmColumn(macd, 1, 5)

\* stock_screener.calculate_macd: on the daily change in percent
calculate_macd(df) ==
    LET macd == MacdColumn(PctColumn(df.closes))
    IN  [df EXCEPT !.MACD = macd, !.MACD_Signal = SignalColumn(macd)]

\* kosdaq_golden_buy.calculate_macd: on the close itself, with the histogram
kosdaq_calculate_macd(df) ==
    LET macd == MacdColumn([i \in 1..Len(df.closes) |-> df.closes[i] * FP])
        signal == SignalColumn(macd)
    IN  [df EXCEPT !.MACD = macd, !.MACD_Signal = signal,
                   !.MACD_Histogram = [i \in 1..Len(macd) |-> macd[i] - signal[i]]]

\* data_fetcher.fetch_technical_indicators: MA5, MA20, MA60 and RSI(14);
\* an empty frame is returned as it is
fetch_technical_indicators(df) ==
    IF df.closes = <<>> THEN df
    ELSE calculate_rsi(calculate_ma(df, {5, 20, 60}), 14)

\* the RSI of the last row in whole points, as the mode analyzers read it
RsiPoints(rsi) == IF rsi \in {None, NaN} THEN rsi ELSE rsi \div RSI_UNIT

\* run_mode_screening on the frame of one ticker in swing mode: the three
\* indicator calls, then the screening of the last row; a frame of fewer
\* than 20 bars is reported as insufficient and skipped
screen_series(closes) ==
    IF Len(closes) < 20 THEN NoDict
    ELSE LET df == calculate_macd(calculate_rsi(calculate_ma(BareFrame(closes), {5, 20, 60, 120}), 14))
             latest == [MA5 |-> LastOf(df.MA5), MA20 |-> LastOf(df.MA20), MA60 |-> LastOf(df.MA60),
                        RSI |-> RsiPoints(LastOf(df.RSI)), volume_ratio |-> None,
                        MACD |-> LastOf(df.MACD), MACD_Signal |-> LastOf(df.MACD_Signal)]
         IN  run_mode_screening("swing", [MA20 |-> df.MA20, MA60 |-> df.MA60, latest |-> latest],
                                closes[Len(closes)] * PRICE_UNIT, NoFundamentals)

(***************************************************************************)
(* Inputs of the indicator engine: close series of several shapes and      *)
(* lengths                                                                 *)
(***************************************************************************)
MaxBars == 125
SeriesLengths == {0, 1, 4, 5, 19, 20, 61, 100, MaxBars}

ConstSeries(n, close) == [i \in 1..n |-> close]
RampSeries(n, start, step) == [i \in 1..n |-> start + (i - 1) * step]
ZigZagSeries(n, low, high) == [i \in 1..n |-> IF i % 2 = 1 THEN low ELSE high]
\* flat, then one bar at another level
JumpSeries(n, flat, last) == [i \in 1..n |-> IF i < n THEN flat ELSE last]

CloseSeries ==
    UNION {{ConstSeries(n, 100), ConstSeries(n, 1), RampSeries(n, 100, 1), RampSeries(n, 100, 2),
            RampSeries(n, 300, -1), ZigZagSeries(n, 100, 104), JumpSeries(n, 100, 90),
            JumpSeries(n, 100, 110)} : n \in SeriesLengths}

DrawSeries == \E closes \in CloseSeries : arg = [closes |-> closes]

CalculateMa ==
    /\ op = "init"
    /\ op' = "calculate_ma"
    /\ arg' = arg
    /\ res' = calculate_ma(BareFrame(arg.closes), {5, 20, 60, 120})
    /\ UNCHANGED watcherVars

FetchTechnicalIndicators ==
    /\ op = "init"
    /\ op' = "fetch_technical_indicators"
    /\ arg' = arg
    /\ res' = fetch_technical_indicators(BareFrame(arg.closes))
    /\ UNCHANGED watcherVars

CalculateRsi ==
    /\ op = "init"
    /\ op' = "calculate_rsi"
    /\ arg' = arg
    /\ res' = calculate_rsi(BareFrame(arg.closes), 14)
    /\ UNCHANGED watcherVars

CalculateMacd ==
    /\ op = "init"
    /\ op' = "calculate_macd"
    /\ arg' = arg
    /\ res' = calculate_macd(BareFrame(arg.closes))
    /\ UNCHANGED watcherVars

KosdaqCalculateMacd ==
    /\ op = "init"
    /\ op' = "kosdaq_calculate_macd"
    /\ arg' = arg
    /\ res' = kosdaq_calculate_macd(BareFrame(arg.closes))
    /\ UNCHANGED watcherVars

\* the screening reads the RSI in whole points: it is run on the series
\* whose latest RSI is a whole number or NaN
ScreenSeries ==
    /\ op = "init"
    /\ LET rsi == LastOf(RsiColumn(arg.closes, 14))
       IN  rsi \in {None, NaN} \/ rsi % RSI_UNIT = 0
    /\ op' = "screen_series"
    /\ arg' = arg
    /\ res' = screen_series(arg.closes)
    /\ UNCHANGED watcherVars

InitIndicators ==
    /\ op = "init"
    /\ WatcherIdle
    /\ DrawSeries
    /\ res = <<>>

NextIndicators ==
    \/ CalculateMa
    \/ FetchTechnicalIndicators
    \/ CalculateRsi
    \/ CalculateMacd
    \/ KosdaqCalculateMacd
    \/ ScreenSeries

SpecIndicators == InitIndicators /\ [][NextIndicators]_vars

(***************************************************************************)
(* stock_scanner.py: evaluate_daytrade                                     *)
(*                                                                         *)
(* The scanner's own daytrade rule, on the latest row of the frame and the *)
(* current price.  Units are the ones of the mode analyzers: volume ratio  *)
(* in tenths, RSI in points, the stop loss in hundredths of the price      *)
(* unit.                                                                   *)
(***************************************************************************)
SC_UNFIT == "daytrade_unfit"                    \* "단타 진입 부적합"
SC_VOLATILE == "daytrade_unfit_volatile"        \* "단타 진입 부적합(변동성 과다)"

\* stock_scanner._safe_float: None for None and for NaN (pd.isna)
scanner_safe_float(value) == IF value = NaN THEN None ELSE value

\* current_price < ma5 * 0.985
sc_exit_ma(current_price, ma5) == Truthy(ma5) /\ 1000 * current_price < 985 * ma5

evaluate_daytrade(latest, current_price) ==
    LET ma5 == scanner_safe_float(latest.MA5)
        volume_ratio == scanner_safe_float(latest.volume_ratio)
        rsi == scanner_safe_float(latest.RSI)
        atr == scanner_safe_float(latest.ATR14)
        near_ma5 == IF Truthy(ma5) THEN NearMA(current_price, ma5, 12, 1000) ELSE FALSE
        vol_ok == volume_ratio # None /\ volume_ratio >= 20
        rsi_ok == rsi # None /\ 35 <= rsi /\ rsi <= 45
        entry_signal == near_ma5 /\ vol_ok /\ rsi_ok
        exit_rsi == rsi # None /\ rsi >= 70
        exit_ma == ~exit_rsi /\ sc_exit_ma(current_price, ma5)
        exit_signal == exit_rsi \/ exit_ma
        \* atr / current_price >= 0.05
        volatile == Truthy(atr) /\ Truthy(current_price) /\ 100 * atr >= 5 * current_price
        status == IF exit_signal THEN DT_EXIT
                  ELSE IF entry_signal THEN DT_ENTRY
                  ELSE IF volatile THEN SC_VOLATILE
                  ELSE SC_UNFIT
        conditions == Labels(<<Flag(near_ma5, "MA5_near_pullback"),
                               Flag(vol_ok, "volume_x"),
                               Flag(rsi_ok, "RSI_value"),
                               Flag(exit_rsi, "RSI_overheated"),
                               Flag(exit_ma, "MA5_breakdown")>>)
        reason == IF conditions = <<>> THEN <<"conditions_unmet">> ELSE conditions
    IN  [mode |-> "daytrade",
         entry_signal |-> entry_signal,
         exit_signal |-> exit_signal,
         status |-> status,
         summary |-> <<reason, status>>,
         reason |-> reason,
         stop_loss |-> IF Truthy(current_price) THEN current_price * 98 ELSE None,
         stop_loss_pct |-> IF Truthy(current_price) THEN 2 ELSE None,
         atr_ratio |-> IF Truthy(atr) /\ Truthy(current_price) THEN Frac(atr, current_price)
                       ELSE None]

\* the latest rows and current prices of the scanned tickers
SC_Prices == {984, 985, 986, 988, 999, 1000, 1012, 1013}
SC_ATR == {None, NaN, 49, 50}

DrawScannerInput ==
    \E price \in SC_Prices, ma5 \in DT_MA5, rsi \in DT_RSI, vr \in DT_VolumeRatio, atr \in SC_ATR :
        arg = [latest |-> [MA5 |-> ma5, RSI |-> rsi, volume_ratio |-> vr, ATR14 |-> atr],
               current_price |-> price]

EvaluateDaytrade ==
    /\ op = "init"
    /\ op' = "evaluate_daytrade"
    /\ arg' = arg
    /\ res' = evaluate_daytrade(arg.latest, arg.current_price)
    /\ UNCHANGED watcherVars

InitScanner ==
    /\ op = "init"
    /\ WatcherIdle
    /\ DrawScannerInput
    /\ res = <<>>

NextScanner == EvaluateDaytrade

SpecScanner == InitScanner /\ [][NextScanner]_vars

(***************************************************************************)
(* stock_screener.py: analyze_entry_opportunity                            *)
(*                                                                         *)
(* The inputs are integer prices.  The price levels computed from them     *)
(* are carried as integers in units of 1/SCALE, which holds every product  *)
(* of the function's percentages exactly.  Pct(x, a, b) is x * (a / b)     *)
(* with a/b the percentage in lowest terms (0.995 is 199/200).             *)
(***************************************************************************)
SCALE == 2000000

Pct(x, a, b) == (x \div b) * a
\* mutant: max() where the source has min()
Min_AsMax(a, b) == IF a >= b THEN a ELSE b
Min(a, b) == IF a <= b THEN a ELSE b
Max(a, b) == IF a >= b THEN a ELSE b

E_OK == "ok"          \* "✅"
E_WATCH == "watch"    \* "👀"
E_BLOCK == "block"    \* "🚫"

\* the comment on the RSI and on the volume ratio; the two "overheated"
\* comments are the ones that contain "과열"
rsi_comment(rsi) ==
    IF rsi = None THEN ""
    ELSE IF Lt(rsi, 30) THEN "RSI_oversold"                    \* "⚠️ RSI 과매도"
    ELSE IF Le(30, rsi) /\ Lt(rsi, 45) THEN "RSI_low"          \* "📉 RSI 낮음 (관망)"
    ELSE IF Le(45, rsi) /\ Le(rsi, 55) THEN "RSI_fair"         \* "✅ RSI 적정"
    ELSE IF Lt(55, rsi) /\ Le(rsi, 70) THEN "RSI_high"         \* "📈 RSI 높음"
    ELSE "RSI_overheated"                                      \* "🚨 RSI 과열"

volume_comment(volume_ratio) ==
    IF volume_ratio = None THEN ""
    ELSE IF Lt(volume_ratio, 8) THEN "volume_low"                          \* "🔹 거래량 저조"
    ELSE IF Le(8, volume_ratio) /\ Lt(volume_ratio, 12) THEN "volume_normal"   \* "⚖️ 거래량 정상 수준"
    ELSE IF Le(12, volume_ratio) /\ Le(volume_ratio, 20) THEN "volume_up"      \* "✅ 거래량 증가"
    ELSE IF Lt(20, volume_ratio) /\ Le(volume_ratio, 30) THEN "volume_active"  \* "📊 거래량 활발"
    ELSE "volume_overheated"                                               \* "⚠️ 거래량 과열"

\* the first buy range, before the final clamp
buy_range_1(ma5, ma20, cp) ==
    IF cp >= ma5
    THEN [low |-> Pct(ma5, 99, 100), high |-> Min(ma5, Pct(cp, 199, 200))]
    ELSE IF cp >= ma20
    THEN [low |-> Max(Pct(ma20, 99, 100), Pct(cp, 97, 100)),
          high |-> Min(Pct(ma5, 99, 100), Pct(cp, 199, 200))]
    ELSE [low |-> Pct(cp, 97, 100), high |-> Min(Pct(ma20, 99, 100), Pct(cp, 199, 200))]

\* the second buy range, before it is moved below the first
buy_range_2(ma20, cp) ==
    IF cp >= ma20
    THEN [low |-> Pct(ma20, 197, 200), high |-> Min(ma20, Pct(cp, 99, 100))]
    ELSE [low |-> Pct(cp, 19, 20), high |-> Min(Pct(ma20, 197, 200), Pct(cp, 49, 50))]

\* the second range re-centred 4% (6% below MA20) under the middle of the first
recentred_range_2(mid1, ma20, cp) ==
    LET target_2_mid == IF cp >= ma20 THEN Pct(mid1, 24, 25) ELSE Pct(mid1, 47, 50)
        high == Min(Pct(target_2_mid, 101, 100), Pct(cp, 999, 1000))
        low == Pct(target_2_mid, 99, 100)
    IN  [low |-> IF low > high THEN Pct(high, 49, 50) ELSE low, high |-> high]

\* the final check of a range: the high is capped at 99.9% of the current
\* price, then a low above the high is put 2% under it
final_range(range, cp) ==
    LET high == Min(range.high, Pct(cp, 999, 1000))
    IN  [low |-> IF range.low > high THEN Pct(high, 49, 50) ELSE range.low, high |-> high]

\* ((a - b) / b) * 100 compared with n, 0 for b <= 0
PctAbove(a, b, n) == IF b > 0 THEN 100 * (a - b) > n * b ELSE 0 > n
PctBelow(a, b, n) == IF b > 0 THEN 100 * (a - b) < n * b ELSE 0 < n

analyze_entry_opportunity(close_price, ma5_in, ma20_in, rsi, volume_ratio, current_price_in) ==
    IF ma5_in = None \/ ma20_in = None \/ close_price = None THEN NoDict
    ELSE
    LET current_price == IF current_price_in = None THEN close_price ELSE current_price_in
        cp == current_price * SCALE
        ma5 == ma5_in * SCALE
        ma20 == ma20_in * SCALE
        close_above_ma5 == close_price >= ma5_in
        r1 == buy_range_1(ma5, ma20, cp)
        r2 == buy_range_2(ma20, cp)
        buy_range_1_mid == (r1.low + r1.high) \div 2
        buy_range_2_mid == (r2.low + r2.high) \div 2
        r2_moved == IF buy_range_2_mid >= Pct(buy_range_1_mid, 97, 100)
                    THEN recentred_range_2(buy_range_1_mid, ma20, cp)
                    ELSE r2
        range_1 == final_range(r1, cp)
        range_2 == final_range(r2_moved, cp)
        stop_loss_price == Min(Pct(ma20, 97, 100), Pct(cp, 97, 100))
        comment_parts == Labels(<<rsi_comment(rsi), volume_comment(volume_ratio)>>)
        position_status ==
            IF close_above_ma5
            THEN IF PctAbove(close_price, ma5_in, 1) THEN <<E_WATCH, "above_MA5_wait">>
                 ELSE IF PctAbove(close_price, ma5_in, 0) THEN <<E_OK, "near_MA5">>
                 ELSE <<E_OK, "under_MA5_buy">>
            ELSE IF PctBelow(close_price, ma5_in, -2) THEN <<E_WATCH, "under_MA5_falling">>
                 ELSE <<E_OK, "under_MA5_buy">>
        cross == IF ma5_in >= ma20_in THEN "golden_cross"
                 ELSE IF 100 * (ma5_in - ma20_in) >= -2 * ma20_in THEN "golden_cross_near"
                 ELSE "dead_cross"
        entry_reason == Labels(<<Flag(rsi_comment(rsi) = "RSI_fair", "RSI_fair"),
                                 Flag(volume_comment(volume_ratio) = "volume_up", "volume_up"),
                                 position_status[2], cross>>)
        overheated == \E k \in 1..Len(comment_parts) :
                          comment_parts[k] \in {"RSI_overheated", "volume_overheated"}
        \* the status set from the close position replaces the one set from the RSI
        entry_status == IF position_status[1] = E_OK /\ Len(entry_reason) >= 2 THEN E_OK
                        ELSE IF overheated THEN E_BLOCK ELSE position_status[1]
        price_position == IF close_above_ma5
                          THEN IF PctAbove(close_price, ma5_in, 1) THEN "above_MA5" ELSE "near_MA5"
                          ELSE "below_MA5"
    IN  [entry_status |-> entry_status,
         judgment |-> <<entry_status, price_position>>,
         close_price |-> close_price,
         current_price |-> current_price,
         ma5 |-> ma5_in,
         ma20 |-> ma20_in,
         buy_range_1_low |-> range_1.low,
         buy_range_1_high |-> range_1.high,
         buy_range_2_low |-> range_2.low,
         buy_range_2_high |-> range_2.high,
         stop_loss_price |-> stop_loss_price,
         in_buy_range_1 |-> (range_1.low <= cp /\ cp <= range_1.high),
         in_buy_range_2 |-> (range_2.low <= cp /\ cp <= range_2.high),
         below_stop_loss |-> cp < stop_loss_price,
         comment |-> comment_parts,
         entry_reason |-> entry_reason]

(***************************************************************************)
(* Inputs of analyze_entry_opportunity                                     *)
(***************************************************************************)
EO_Prices == {90, 95, 99, 100, 101, 105, 110}
EO_Closes == {None, 95, 100, 105}
EO_RSI == {None, NaN, 29, 50, 71}
EO_VolumeRatio == {None, 7, 12, 31}

DrawEntryInput ==
    \E close_price \in EO_Closes, ma5 \in EO_Prices \cup {None}, ma20 \in EO_Prices \cup {None},
       rsi \in EO_RSI, volume_ratio \in EO_VolumeRatio, current_price \in EO_Prices \cup {None} :
        arg = [close_price |-> close_price, ma5 |-> ma5, ma20 |-> ma20, rsi |-> rsi,
               volume_ratio |-> volume_ratio, current_price |-> current_price]

AnalyzeEntryOpportunity ==
    /\ op = "init"
    /\ op' = "analyze_entry_opportunity"
    /\ arg' = arg
    /\ res' = analyze_entry_opportunity(arg.close_price, arg.ma5, arg.ma20, arg.rsi,
                                        arg.volume_ratio, arg.current_price)
    /\ UNCHANGED watcherVars

InitEntry ==
    /\ op = "init"
    /\ WatcherIdle
    /\ DrawEntryInput
    /\ res = <<>>

NextEntry == AnalyzeEntryOpportunity

SpecEntry == InitEntry /\ [][NextEntry]_vars

(***************************************************************************)
(* signal_watcher.py: the alert throttle (AlertState), run_cycle and main  *)
(*                                                                         *)
(* Time is the UTC clock in seconds.  A watcher process is at one of the   *)
(* positions load_config, fetch, evaluate, notify, send, send_failed,      *)
(* save_open, save_dump, end_cycle, sleep, done.  The state file of a path *)
(* is missing, unreadable (empty or garbled, json.load raises) or holds a  *)
(* JSON dict.  An alert key is the pair <<code, alert_type>>.              *)
(***************************************************************************)
Procs == {1, 2}
Paths == {"a", "b"}
\* STOCK_CODES=AAPL and WATCH_SYMBOLS=KTG:033780; the rule code is appended
StockCodes == <<"AAPL", "033780">>
RULE_ALIAS == "KTG"
RULE_CODE == "033780"
\* AAPL comes with a price frame and buy signals; 033780 comes with a
\* current price only, which leaves evaluate_alerts nothing to compare
BuiltinTypes(code) == IF code = "AAPL" THEN <<"entry_buy1">> ELSE <<>>
RuleTypes == <<"KTG_breakout", "KTG_take_profit_1">>
Keys == {<<"AAPL", "entry_buy1">>, <<"033780", "KTG_breakout">>,
         <<"033780", "KTG_take_profit_1">>}

SECONDS_PER_DAY == 86400
MIN_INTERVAL == 30
MIN_COOLDOWN_MINUTES == 1
PREVIEW_LEN == 80
\* the clock advances in steps of TickSeconds, from one minute before a UTC
\* midnight, for at most MaxElapsed seconds
TickSeconds == MIN_INTERVAL
StartTime == SECONDS_PER_DAY - TickSeconds
MaxElapsed == 60

NoConfig == [none |-> TRUE]
NoState == [none |-> TRUE]
NoRecord == [none |-> TRUE]
EmptyState == [k \in Keys |-> NoRecord]
MissingFile == [kind |-> "missing", data |-> EmptyState]
UnreadableFile == [kind |-> "unreadable", data |-> EmptyState]
JsonFile(state) == [kind |-> "json", data |-> state]

\* current_timestamp(): datetime.utcnow().isoformat(), date and time of day
current_timestamp(t) == [date |-> t \div SECONDS_PER_DAY, time |-> t % SECONDS_PER_DAY]
\* parse_timestamp(): datetime.fromisoformat
parse_timestamp(s) == s.date * SECONDS_PER_DAY + s.time
DateOf(t) == t \div SECONDS_PER_DAY

(***************************************************************************)
(* The environment (.env) read by load_runtime_config                      *)
(***************************************************************************)
\* ALERT_COOLDOWN_MINUTES=0 and CHECK_INTERVAL_SECONDS=10 are raised to the
\* minimum values by load_runtime_config; RUN_ONCE is the raw text, "" when
\* the variable is not set
EnvDefault ==
    [state_path |-> "a", cooldown_minutes |-> 0, check_interval |-> 10,
     alert_cooldown_sec |-> None, once_per_day |-> FALSE, run_once |-> ""]

EnvSettings ==
    [state_path : Paths, cooldown_minutes : {0, 2}, check_interval : {10},
     alert_cooldown_sec : {None, 0, 30, 90}, once_per_day : BOOLEAN, run_once : {"", "YES"}]

\* further texts of RUN_ONCE a process can be started with
RunOnceTexts == {"", "0", "1", "True", "YES", "on"}

\* the environments that differ from the default one in at most one setting
EnvConfigs ==
    {e \in EnvSettings : Cardinality({f \in DOMAIN e : e[f] # EnvDefault[f]}) <= 1}

\* str.lower() on the texts of RUN_ONCE
Lower(text) ==
    CASE text = "True" -> "true"
      [] text = "YES" -> "yes"
      [] OTHER -> text

\* run_once_raw.lower() in {"1", "true", "yes"}
run_once_of_AnyText(run_once_raw) == run_once_raw # ""
run_once_of(run_once_raw) == Lower(run_once_raw) \in {"1", "true", "yes"}

load_runtime_config(e) ==
    [state_path |-> e.state_path,
     cooldown_minutes |-> IF e.cooldown_minutes > MIN_COOLDOWN_MINUTES
                          THEN e.cooldown_minutes ELSE MIN_COOLDOWN_MINUTES,
     check_interval |-> IF e.check_interval > MIN_INTERVAL THEN e.check_interval ELSE MIN_INTERVAL,
     stock_codes |-> StockCodes,
     rule |-> [alias |-> RULE_ALIAS, code |-> RULE_CODE,
               alert_cooldown_sec |-> e.alert_cooldown_sec,
               once_per_day |-> e.once_per_day],
     run_once |-> run_once_of(e.run_once)]

(***************************************************************************)
(* Alerts                                                                  *)
(***************************************************************************)
\* a message is carried as its kind and its length in characters
MessageLen(alert_type) == IF alert_type = "entry_buy1" THEN 120 ELSE 60
MessageOf(alert_type) == [head |-> alert_type, len |-> MessageLen(alert_type)]
\* message[:80]
Preview(message) ==
    [head |-> message.head, len |-> IF message.len < PREVIEW_LEN THEN message.len ELSE PREVIEW_LEN]

PendingAlert(alert_type, cooldown_seconds, once_per_day, context) ==
    [alert_type |-> alert_type, message |-> MessageOf(alert_type),
     cooldown_seconds |-> cooldown_seconds, once_per_day |-> once_per_day,
     context |-> context]

\* evaluate_alerts: the alerts the market data of the cycle can trigger
evaluate_alerts(code) ==
    [i \in 1..Len(BuiltinTypes(code)) |-> PendingAlert(BuiltinTypes(code)[i], None, FALSE, "none")]

\* evaluate_watch_rules: the alerts of the rule share one context dict
evaluate_watch_rules(rules) ==
    IF rules = <<>> THEN <<>>
    ELSE [i \in 1..Len(RuleTypes) |->
             PendingAlert(RuleTypes[i], rules[1].alert_cooldown_sec, rules[1].once_per_day, "rule")]

rules_by_code(config, code) == IF config.rule.code = code THEN <<config.rule>> ELSE <<>>

RECURSIVE Triggered(_, _, _)
Triggered(alerts, S, i) ==
    IF i > Len(alerts) THEN <<>>
    ELSE (IF i \in S THEN <<alerts[i]>> ELSE <<>>) \o Triggered(alerts, S, i + 1)

(***************************************************************************)
(* AlertState                                                              *)
(***************************************************************************)
_load(f) == IF f.kind = "json" THEN f.data ELSE EmptyState

should_notify_ShortestCooldown(state, cooldown_minutes, key, cooldown_seconds, once_per_day, t) ==
    LET alert_info == state[key]
        sent_at == parse_timestamp(alert_info.timestamp)
    IN  IF alert_info = NoRecord THEN TRUE
        ELSE IF once_per_day THEN DateOf(sent_at) # DateOf(t)
        ELSE t - sent_at >= cooldown_minutes * 60
          \/ (cooldown_seconds # None /\ cooldown_seconds > 0 /\ t - sent_at >= cooldown_seconds)
should_notify_StrictCooldown(state, cooldown_minutes, key, cooldown_seconds, once_per_day, t) ==
    LET alert_info == state[key]
        sent_at == parse_timestamp(alert_info.timestamp)
        cooldown == IF cooldown_seconds # None /\ cooldown_seconds > 0
                    THEN cooldown_seconds ELSE cooldown_minutes * 60
    IN  IF alert_info = NoRecord THEN TRUE
        ELSE IF once_per_day THEN DateOf(sent_at) # DateOf(t)
        ELSE t - sent_at > cooldown
should_notify_OncePerDayUnchecked(state, cooldown_minutes, key, cooldown_seconds, once_per_day, t) ==
    LET alert_info == state[key]
        sent_at == parse_timestamp(alert_info.timestamp)
        cooldown == IF cooldown_seconds # None /\ cooldown_seconds > 0
                    THEN cooldown_seconds ELSE cooldown_minutes * 60
    IN  IF alert_info = NoRecord THEN TRUE
        ELSE IF once_per_day THEN TRUE
        ELSE t - sent_at >= cooldown
should_notify(state, cooldown_minutes, key, cooldown_seconds, once_per_day, t) ==
    LET alert_info == state[key]
        sent_at == parse_timestamp(alert_info.timestamp)
        cooldown == IF cooldown_seconds # None /\ cooldown_seconds > 0
                    THEN cooldown_seconds ELSE cooldown_minutes * 60
    IN  IF alert_info = NoRecord THEN TRUE
        ELSE IF once_per_day THEN DateOf(sent_at) # DateOf(t)
        ELSE t - sent_at >= cooldown

\* mark_sent up to the _save call: the payload is the timestamp plus the context
mark_sent(state, key, context_preview, t) ==
    [state EXCEPT ![key] = [timestamp |-> current_timestamp(t),
                            message_preview |-> context_preview]]


(***************************************************************************)
(* History of the successful sends of a process, kept for the properties:  *)
(* the time of its last successful send of a key (last), whether its state *)
(* path and cooldown configuration are the same since then (clean), and    *)
(* whether they stayed the same between its last two sends (stable).       *)
(***************************************************************************)
NoSends == [last |-> None, stable |-> FALSE, clean |-> FALSE]

SameThrottle(c, d) ==
    /\ c.state_path = d.state_path
    /\ c.cooldown_minutes = d.cooldown_minutes
    /\ c.rule.alert_cooldown_sec = d.rule.alert_cooldown_sec
    /\ c.rule.once_per_day = d.rule.once_per_day

(***************************************************************************)
(* Steps of a watcher process                                              *)
(***************************************************************************)
KeyOf(p) == <<cfg[p].stock_codes[idx[p]], Head(pending[p]).alert_type>>

\* `continue' of the loop over stock_codes, or the end of run_cycle
NextCode_AbortCycle(p) ==
    /\ idx' = idx
    /\ pc' = [pc EXCEPT ![p] = "end_cycle"]
NextCode(p) ==
    IF idx[p] < Len(cfg[p].stock_codes)
    THEN /\ idx' = [idx EXCEPT ![p] = idx[p] + 1]
         /\ pc' = [pc EXCEPT ![p] = "fetch"]
    ELSE /\ idx' = idx
         /\ pc' = [pc EXCEPT ![p] = "end_cycle"]

\* the loop over the alerts of a code moves on to the next alert
NextAlert(p) ==
    /\ pending' = [pending EXCEPT ![p] = Tail(pending[p])]
    /\ IF Tail(pending[p]) = <<>> THEN NextCode(p)
       ELSE pc' = [pc EXCEPT ![p] = "notify"] /\ idx' = idx

\* main: top of the loop.  The configuration is read again; a new AlertState
\* is built, and loaded from the file, when there is none yet or when the
\* signature (state path, cooldown minutes) differs.
Reload_StaleConfig(p, e) ==
    /\ pc[p] = "load_config"
    /\ env' = e
    /\ LET config == IF cfg[p] = NoConfig THEN load_runtime_config(e) ELSE cfg[p]
           desired_signature == [path |-> config.state_path,
                                 cooldown_minutes |-> config.cooldown_minutes]
           rebuilt == st[p] = NoState \/ st[p] # desired_signature
       IN  /\ cfg' = [cfg EXCEPT ![p] = config]
           /\ st' = [st EXCEPT ![p] = desired_signature]
           /\ mem' = [mem EXCEPT ![p] = IF rebuilt THEN _load(file[config.state_path]) ELSE mem[p]]
           /\ sendlog' = sendlog
    /\ idx' = [idx EXCEPT ![p] = 1]
    /\ pending' = [pending EXCEPT ![p] = <<>>]
    /\ pc' = [pc EXCEPT ![p] = "fetch"]
    /\ UNCHANGED <<now, file, ruleCtx, wake, dirty, persisted, pureVars>>
Reload(p, e) ==
    /\ pc[p] = "load_config"
    /\ env' = e
    /\ LET config == load_runtime_config(e)
           desired_signature == [path |-> config.state_path,
                                 cooldown_minutes |-> config.cooldown_minutes]
           rebuilt == st[p] = NoState \/ st[p] # desired_signature
       IN  /\ cfg' = [cfg EXCEPT ![p] = config]
           /\ st' = [st EXCEPT ![p] = desired_signature]
           /\ mem' = [mem EXCEPT ![p] = IF rebuilt THEN _load(file[config.state_path]) ELSE mem[p]]
           /\ sendlog' = [sendlog EXCEPT ![p] =
                  IF cfg[p] = NoConfig \/ SameThrottle(cfg[p], config) THEN sendlog[p]
                  ELSE [k \in Keys |-> [sendlog[p][k] EXCEPT !.clean = FALSE]]]
    /\ idx' = [idx EXCEPT ![p] = 1]
    /\ pending' = [pending EXCEPT ![p] = <<>>]
    /\ pc' = [pc EXCEPT ![p] = "fetch"]
    /\ UNCHANGED <<now, file, ruleCtx, wake, dirty, persisted, pureVars>>

\* the environment is as it was at the last read
LoadConfig(p) == Reload(p, env)

\* the operator has edited the environment since the last read
LoadEditedConfig(p) == \E e \in EnvConfigs \ {env} : Reload(p, e)

\* run_cycle: fetch_stock_context returns a context or None
Fetch(p) ==
    /\ pc[p] = "fetch"
    /\ \E fetched \in BOOLEAN :
          IF fetched THEN pc' = [pc EXCEPT ![p] = "evaluate"] /\ idx' = idx
          ELSE NextCode(p)
    /\ UNCHANGED <<now, env, file, cfg, st, mem, pending, ruleCtx, wake, dirty,
                   sendlog, persisted, pureVars>>

\* run_cycle: evaluate_alerts, then evaluate_watch_rules appended
Evaluate(p) ==
    /\ pc[p] = "evaluate"
    /\ LET code == cfg[p].stock_codes[idx[p]]
           alerts == evaluate_alerts(code) \o evaluate_watch_rules(rules_by_code(cfg[p], code))
       IN  \E S \in SUBSET (1..Len(alerts)) :
              /\ pending' = [pending EXCEPT ![p] = Triggered(alerts, S, 1)]
              /\ IF Triggered(alerts, S, 1) = <<>> THEN NextCode(p)
                 ELSE pc' = [pc EXCEPT ![p] = "notify"] /\ idx' = idx
    /\ ruleCtx' = [ruleCtx EXCEPT ![p] = NoDict]
    /\ UNCHANGED <<now, env, file, cfg, st, mem, wake, dirty, sendlog, persisted, pureVars>>

\* run_cycle: state.should_notify for the alert at hand
Notify(p) ==
    /\ pc[p] = "notify"
    /\ LET alert == Head(pending[p])
       IN  IF should_notify(mem[p], st[p].cooldown_minutes, KeyOf(p),
                            alert.cooldown_seconds, alert.once_per_day, now)
           THEN pc' = [pc EXCEPT ![p] = "send"] /\ UNCHANGED <<idx, pending>>
           ELSE NextAlert(p)
    /\ UNCHANGED <<now, env, file, cfg, st, mem, ruleCtx, wake, dirty, sendlog, persisted, pureVars>>

\* run_cycle: send_telegram_message returns True or False; after a True,
\* context = alert.context or {}, setdefault of message_preview, and
\* mark_sent stores the payload under the key (its _save follows)
Send(p) ==
    /\ pc[p] = "send"
    /\ \E sent \in BOOLEAN :
          IF sent
          THEN LET alert == Head(pending[p])
                   log == sendlog[p][KeyOf(p)]
                   own == Preview(alert.message)
                   stored == IF alert.context = "rule" /\ ruleCtx[p] # NoDict
                             THEN ruleCtx[p] ELSE own
               IN  /\ sendlog' = [sendlog EXCEPT ![p][KeyOf(p)] =
                          [last |-> now, stable |-> log.clean, clean |-> TRUE]]
                   /\ ruleCtx' = [ruleCtx EXCEPT ![p] =
                          IF alert.context = "rule" THEN stored ELSE ruleCtx[p]]
                   /\ mem' = [mem EXCEPT ![p] = mark_sent(mem[p], KeyOf(p), stored, now)]
                   /\ pc' = [pc EXCEPT ![p] = "save_open"]
                   /\ UNCHANGED <<idx, pending>>
          ELSE /\ pc' = [pc EXCEPT ![p] = "send_failed"]
               /\ UNCHANGED <<idx, pending, sendlog, ruleCtx, mem>>
    /\ UNCHANGED <<now, env, file, cfg, st, wake, dirty, persisted, pureVars>>

\* run_cycle: the else branch of `if sent', a warning in the log and nothing
\* else, then the next alert
SendFailed_MarksSent(p) ==
    /\ pc[p] = "send_failed"
    /\ mem' = [mem EXCEPT ![p] = mark_sent(mem[p], KeyOf(p), Preview(Head(pending[p]).message), now)]
    /\ NextAlert(p)
    /\ UNCHANGED <<now, env, file, cfg, st, ruleCtx, wake, dirty, sendlog, persisted, pureVars>>
SendFailed(p) ==
    /\ pc[p] = "send_failed"
    /\ NextAlert(p)
    /\ UNCHANGED <<now, env, file, cfg, st, mem, ruleCtx, wake, dirty, sendlog, persisted, pureVars>>

\* _save: open(path, "w") truncates the file, or raises and leaves it alone
SaveOpen(p) ==
    /\ pc[p] = "save_open"
    /\ \E opened \in BOOLEAN :
          IF opened
          THEN /\ file' = [file EXCEPT ![st[p].path] = UnreadableFile]
               /\ dirty' = [dirty EXCEPT ![p] = FALSE]
               /\ pc' = [pc EXCEPT ![p] = "save_dump"]
               /\ UNCHANGED <<idx, pending>>
          ELSE NextAlert(p) /\ UNCHANGED <<file, dirty>>
    /\ UNCHANGED <<now, env, cfg, st, mem, ruleCtx, wake, sendlog, persisted, pureVars>>

\* _save: what json.dump(self.state, fp) writes
_save_Merged(p) ==
    JsonFile([k \in Keys |->
                 IF mem[p][k] # NoRecord \/ \A q \in Procs : mem[q][k] = NoRecord THEN mem[p][k]
                 ELSE mem[CHOOSE q \in Procs : mem[q][k] # NoRecord][k]])
_save(p) == JsonFile(mem[p])

\* _save: json.dump and close.  When another process wrote through its own
\* handle since this one was opened, the bytes may mix and not parse.
SaveDump(p) ==
    /\ pc[p] = "save_dump"
    /\ \E written \in {_save(p)} \cup
                      (IF dirty[p] THEN {UnreadableFile} ELSE {}) :
          /\ file' = [file EXCEPT ![st[p].path] = written]
          /\ persisted' = [persisted EXCEPT ![p] =
                 IF written = UnreadableFile THEN persisted[p]
                 ELSE persisted[p] \cup {k \in Keys : mem[p][k] # NoRecord}]
    /\ dirty' = [q \in Procs |->
                    IF q # p /\ pc[q] = "save_dump" /\ st[q].path = st[p].path
                    THEN TRUE ELSE dirty[q]]
    /\ NextAlert(p)
    /\ UNCHANGED <<now, env, cfg, st, mem, ruleCtx, wake, sendlog, pureVars>>

\* main: after run_cycle, break on run_once or sleep max(check_interval, 30)
EndCycle(p) ==
    /\ pc[p] = "end_cycle"
    /\ IF cfg[p].run_once
       THEN pc' = [pc EXCEPT ![p] = "done"] /\ wake' = wake
       ELSE /\ pc' = [pc EXCEPT ![p] = "sleep"]
            /\ wake' = [wake EXCEPT ![p] = now +
                   (IF cfg[p].check_interval > MIN_INTERVAL THEN cfg[p].check_interval
                    ELSE MIN_INTERVAL)]
    /\ UNCHANGED <<now, env, file, cfg, st, mem, idx, pending, ruleCtx, dirty,
                   sendlog, persisted, pureVars>>

\* main: time.sleep returns
Wake(p) ==
    /\ pc[p] = "sleep"
    /\ now >= wake[p]
    /\ pc' = [pc EXCEPT ![p] = "load_config"]
    /\ UNCHANGED <<now, env, file, cfg, st, mem, idx, pending, ruleCtx, wake, dirty,
                   sendlog, persisted, pureVars>>

\* the clock advances
Tick ==
    /\ now + TickSeconds <= StartTime + MaxElapsed
    /\ now' = now + TickSeconds
    /\ UNCHANGED <<env, file, pc, cfg, st, mem, idx, pending, ruleCtx, wake, dirty,
                   sendlog, persisted, pureVars>>

Step(p) ==
    \/ LoadConfig(p)
    \/ Fetch(p)
    \/ Evaluate(p)
    \/ Notify(p)
    \/ Send(p)
    \/ SendFailed(p)
    \/ SaveOpen(p)
    \/ SaveDump(p)
    \/ EndCycle(p)

WatcherStart(running) ==
    /\ now = StartTime
    /\ file = [path \in Paths |-> MissingFile]
    /\ pc = [p \in Procs |-> IF p \in running THEN "load_config" ELSE "off"]
    /\ cfg = [p \in Procs |-> NoConfig]
    /\ st = [p \in Procs |-> NoState]
    /\ mem = [p \in Procs |-> EmptyState]
    /\ idx = [p \in Procs |-> 1]
    /\ pending = [p \in Procs |-> <<>>]
    /\ ruleCtx = [p \in Procs |-> NoDict]
    /\ wake = [p \in Procs |-> StartTime]
    /\ dirty = [p \in Procs |-> FALSE]
    /\ sendlog = [p \in Procs |-> [k \in Keys |-> NoSends]]
    /\ persisted = [p \in Procs |-> {}]
    /\ op = "watcher"
    /\ arg = <<>>
    /\ res = <<>>

\* one watcher process; the environment is edited between its reads
InitWatcher == WatcherStart({1}) /\ env \in EnvConfigs
NextWatcher == Tick \/ Step(1) \/ Wake(1) \/ LoadEditedConfig(1)
SpecWatcher == InitWatcher /\ [][NextWatcher]_vars

\* one watcher process whose environment is left alone, when the clock
\* advances, time.sleep returns and every call made by the loop returns
InitSteady ==
    /\ WatcherStart({1})
    /\ env \in EnvConfigs \cup {[EnvDefault EXCEPT !.run_once = text] : text \in RunOnceTexts}
NextSteady == Tick \/ Step(1) \/ Wake(1)
SpecWatcherLive ==
    /\ InitSteady
    /\ [][NextSteady]_vars
    /\ WF_vars(Tick)
    /\ WF_vars(Wake(1))
    /\ WF_vars(Step(1))

\* two watcher processes started with RUN_ONCE=1 on the same environment,
\* hence on the same state path
EnvRace == [EnvDefault EXCEPT !.run_once = "1"]
InitRace == WatcherStart(Procs) /\ env = EnvRace
NextRace == Tick \/ \E p \in Procs : Step(p)
SpecRace == InitRace /\ [][NextRace]_vars

(***************************************************************************)
(* Properties of the mode analyzers (checked under SpecModes).             *)
(* The conditions are restated on the drawn inputs: the frame columns,     *)
(* the current price and the fundamentals.                                 *)
(***************************************************************************)
HasNum(x) == x # None /\ x # NaN

Screened == op \in {"daytrade", "swing", "longterm"}
InPrice == arg.current_price
InRow == arg.df.latest
Analysis == res.analysis

\* the slope of a column: its last value minus the value `lookback' rows earlier
SlopeKnown(column, lookback) ==
    /\ Len(column) > lookback
    /\ HasNum(column[Len(column)])
    /\ HasNum(column[Len(column) - lookback])
SlopeOf(column, lookback) == column[Len(column)] - column[Len(column) - lookback]

Below(price, ma) == HasNum(price) /\ HasNum(ma) /\ price < ma
Within(price, ma, num, den) ==
    HasNum(price) /\ HasNum(ma) /\ den * Abs(price - ma) <= num * ma
AtLeast(x, bound) == HasNum(x) /\ x >= bound
Between(x, lo, hi) == HasNum(x) /\ lo <= x /\ x <= hi

DaytradeEntryCond ==
    /\ Within(InPrice, InRow.MA5, 12, 1000)
    /\ AtLeast(InRow.volume_ratio, 20)
    /\ Between(InRow.RSI, 35, 45)
DaytradeExitCond == AtLeast(InRow.RSI, 70) \/ Below(InPrice, InRow.MA5)

SwingEntryCond ==
    /\ Within(InPrice, InRow.MA20, 2, 100)
    /\ SlopeKnown(arg.df.MA20, 3) /\ SlopeOf(arg.df.MA20, 3) > 0
    /\ HasNum(InRow.MACD) /\ HasNum(InRow.MACD_Signal) /\ InRow.MACD > InRow.MACD_Signal
    /\ Between(InRow.RSI, 40, 50)
SwingExitCond == AtLeast(InRow.RSI, 70) \/ Below(InPrice, InRow.MA20)

FundamentalsMet ==
    LET f == arg.fundamentals
    IN  Cardinality({c \in {"pe", "roe", "eps"} :
            \/ c = "pe" /\ HasNum(f.pe) /\ 0 < f.pe /\ f.pe < 15
            \/ c = "roe" /\ HasNum(f.roe) /\ f.roe > 8
            \/ c = "eps" /\ HasNum(f.eps) /\ f.eps > 0})
LongtermEntryCond ==
    /\ HasNum(InPrice) /\ HasNum(InRow.MA60) /\ InPrice >= InRow.MA60
    /\ SlopeKnown(arg.df.MA60, 5) /\ SlopeOf(arg.df.MA60, 5) >= 0
    /\ FundamentalsMet >= 2
LongtermExitCond ==
    \/ HasNum(InPrice) /\ HasNum(InRow.MA60) /\ 100 * InPrice < 97 * InRow.MA60
    \/ HasNum(arg.fundamentals.eps) /\ arg.fundamentals.eps <= 0
    \/ HasNum(arg.fundamentals.roe) /\ arg.fundamentals.roe < 5

EntryCond ==
    CASE op = "daytrade" -> DaytradeEntryCond
      [] op = "swing" -> SwingEntryCond
      [] op = "longterm" -> LongtermEntryCond
      [] OTHER -> FALSE
ExitCond ==
    CASE op = "daytrade" -> DaytradeExitCond
      [] op = "swing" -> SwingExitCond
      [] op = "longterm" -> LongtermExitCond
      [] OTHER -> FALSE
ExitStatus ==
    CASE op = "daytrade" -> DT_EXIT [] op = "swing" -> SW_EXIT [] OTHER -> LT_EXIT
EntryStatus ==
    CASE op = "daytrade" -> DT_ENTRY [] op = "swing" -> SW_ENTRY [] OTHER -> LT_ENTRY

\* C1: in every mode, whenever the mode's exit condition holds the returned
\* status is the mode's exit (warning) status and never its entry status,
\* also when all entry conditions hold for the same input.
C1_ExitStatusTakesPrecedence ==
    (Screened /\ ExitCond) =>
        (Analysis.status = ExitStatus /\ Analysis.status # EntryStatus)

\* C1 witness: a longterm screening whose entry and exit conditions both
\* hold and that reports the exit status.
C1_Witness ==
    /\ op = "longterm"
    /\ EntryCond /\ ExitCond
    /\ Analysis.status = LT_EXIT

\* C2: on every input on which a mode's entry and exit conditions both
\* hold, the returned dict has exit_signal True and entry_signal not True.
C2_ExitNeverEntryFlag ==
    (Screened /\ EntryCond /\ ExitCond) =>
        (Analysis.exit_signal = TRUE /\ Analysis.entry_signal # TRUE)

\* C7: swing entry_signal is True exactly when the price is within 2% of
\* MA20, the MA20 slope (latest MA20 minus the MA20 three bars earlier) is
\* positive, MACD > MACD_Signal and 40 <= RSI <= 50; volume_ratio has no say.
C7_SwingEntryIff ==
    op = "swing" => (Analysis.entry_signal = TRUE <=> SwingEntryCond)

\* C7 witness: a swing entry fired for a row that has no volume ratio.
C7_Witness ==
    /\ op = "swing"
    /\ Analysis.entry_signal = TRUE
    /\ InRow.volume_ratio = None
    /\ SlopeOf(arg.df.MA20, 3) > 0

\* C8: daytrade entry_signal is True exactly when |price - MA5| / MA5 <= 0.012,
\* volume_ratio >= 2.0 and 35 <= RSI <= 45; it is False when any of price,
\* MA5, volume_ratio or RSI is missing.
C8_DaytradeEntryIff ==
    op = "daytrade" =>
        /\ Analysis.entry_signal = TRUE <=> DaytradeEntryCond
        /\ (\E x \in {InPrice, InRow.MA5, InRow.volume_ratio, InRow.RSI} : ~HasNum(x))
               => Analysis.entry_signal = FALSE

\* C8 witness: a daytrade entry at the edges of all three conditions.
C8_Witness ==
    /\ op = "daytrade"
    /\ Analysis.entry_signal = TRUE
    /\ InPrice = 1012 /\ InRow.MA5 = 1000
    /\ InRow.volume_ratio = 20
    /\ InRow.RSI = 45

\* C9: longterm entry_signal is True exactly when price >= MA60, the MA60
\* slope is non-negative and at least two of {0 < PER < 15, ROE > 8, EPS > 0}
\* hold.
C9_LongtermEntryIff ==
    op = "longterm" => (Analysis.entry_signal = TRUE <=> LongtermEntryCond)

\* C10: in the daytrade and swing modes exit_signal is True exactly when
\* RSI >= 70 or price < MA (no tolerance band below the average), and the
\* reason lists every triggered exit condition, RSI first.
C10_ExitIff ==
    op \in {"daytrade", "swing"} =>
        LET ma == IF op = "daytrade" THEN InRow.MA5 ELSE InRow.MA20
            ma_label == IF op = "daytrade" THEN "MA5_breakdown" ELSE "MA20_breakdown"
        IN  /\ Analysis.exit_signal = TRUE <=> ExitCond
            /\ ExitCond =>
                 Analysis.reason =
                     Labels(<<Flag(AtLeast(InRow.RSI, 70), "RSI_overheated"),
                              Flag(Below(InPrice, ma), ma_label)>>)

\* C10 witness: a swing exit with both conditions triggered, the price just
\* one unit below MA20.
C10_Witness ==
    /\ op = "swing"
    /\ Analysis.exit_signal = TRUE
    /\ InRow.RSI = 70
    /\ InRow.MA20 = 1000 /\ InPrice = 990
    /\ Analysis.reason = <<"RSI_overheated", "MA20_breakdown">>

\* C11: longterm exit_signal is True exactly when price < MA60 x 0.97, or
\* EPS <= 0, or ROE < 5; with EPS and ROE both missing, exit is decided by
\* the price condition alone.
C11_LongtermExitIff ==
    op = "longterm" =>
        /\ Analysis.exit_signal = TRUE <=> LongtermExitCond
        /\ (arg.fundamentals.eps = None /\ arg.fundamentals.roe = None)
               => (Analysis.exit_signal = TRUE <=>
                      (HasNum(InPrice) /\ HasNum(InRow.MA60) /\ 100 * InPrice < 97 * InRow.MA60))

\* C11 witness: a longterm screening with ROE exactly 5, EPS missing and the
\* price at MA60 x 0.97, for which no exit fires.
C11_Witness ==
    /\ op = "longterm"
    /\ Analysis.exit_signal = FALSE
    /\ arg.fundamentals.roe = 5
    /\ arg.fundamentals.eps = None
    /\ InPrice = 97 /\ InRow.MA60 = 100

\* C12: for every input with a non-null, non-zero current price, each mode
\* analyzer returns stop_loss_pct = p and stop_loss_price = price x (1 - p/100)
\* (carried in hundredths), p being 2 for daytrade, 4 for swing and 10 for
\* longterm, whatever the signals and the indicators are.
C12_StopLossFromPrice ==
    (Screened /\ HasNum(InPrice) /\ InPrice # 0) =>
        LET p == CASE op = "daytrade" -> 2 [] op = "swing" -> 4 [] OTHER -> 10
        IN  /\ Analysis.stop_loss_pct = p
            /\ Analysis.stop_loss_price = InPrice * (100 - p)

\* C12 witness: a swing screening in which the exit fired, with the
\* stop-loss 4% below the price of 990.
C12_Witness ==
    /\ op = "swing"
    /\ Analysis.exit_signal = TRUE
    /\ InPrice = 990
    /\ Analysis.stop_loss_price = 95040

\* modes.daytrade.analyze on the price and the indicators of the scanner call
\* at hand
ModeAnalysisOfScan ==
    daytrade_analyze([current_price |-> arg.current_price, ma5 |-> arg.latest.MA5,
                      rsi |-> arg.latest.RSI, volume_ratio |-> arg.latest.volume_ratio])

\* C30: for a non-null positive current price, MA5, RSI and volume ratio,
\* stock_scanner.evaluate_daytrade returns the entry_signal, the exit_signal
\* and the status that modes.daytrade.analyze returns.  (SpecScanner)
C30_ScannerAgreesWithMode ==
    (/\ op = "evaluate_daytrade"
     /\ \A x \in {arg.current_price, arg.latest.MA5, arg.latest.RSI, arg.latest.volume_ratio} :
            x \notin {None, NaN} /\ x > 0)
    => /\ res.entry_signal = ModeAnalysisOfScan.entry_signal
       /\ res.exit_signal = ModeAnalysisOfScan.exit_signal
       /\ res.status = ModeAnalysisOfScan.status

(***************************************************************************)
(* Properties of the price-target calculators                              *)
(***************************************************************************)
\* C5: for every pattern type other than breakdown and every price history
\* and current price, buy_1.price and buy_2.price returned by
\* generate_buy_signals never exceed current_price.  (SpecSignals)
C5_BuyPricesNotAboveCurrent ==
    (/\ op = "generate_buy_signals"
     /\ res # NoDict
     /\ PatternTypeOf(arg.pattern_info) # BREAKDOWN) =>
        /\ res.buy_1.price <= arg.current_price
        /\ res.buy_2.price <= arg.current_price

\* C6: for all positive close, MA5, MA20 and current price,
\* analyze_entry_opportunity returns buy_range_1_high <= current_price and
\* buy_range_2_high <= current_price, whichever branch computed the range.
\* (SpecEntry)
C6_BuyRangeHighNotAboveCurrent ==
    (op = "analyze_entry_opportunity" /\ res # NoDict) =>
        /\ res.buy_range_1_high <= res.current_price * SCALE
        /\ res.buy_range_2_high <= res.current_price * SCALE

\* C6 witness: the current price lies between MA20 and MA5 and the second
\* range was re-centred under the first one.
C6_Witness ==
    /\ op = "analyze_entry_opportunity"
    /\ res # NoDict
    /\ arg.current_price # None
    /\ arg.ma20 <= arg.current_price /\ arg.current_price < arg.ma5
    /\ LET r1 == buy_range_1(arg.ma5 * SCALE, arg.ma20 * SCALE, arg.current_price * SCALE)
           r2 == buy_range_2(arg.ma20 * SCALE, arg.current_price * SCALE)
       IN  /\ r2.low + r2.high >= Pct(r1.low + r1.high, 97, 100)
           /\ res.buy_range_2_high < r2.high

\* the calls of analyze_entry_opportunity with the close, the RSI and the
\* volume ratio of the call at hand and any of the positive prices as MA5,
\* MA20 and current price
EntryAnalyses ==
    {analyze_entry_opportunity(arg.close_price, ma5, ma20, arg.rsi, arg.volume_ratio, current_price) :
        ma5 \in EO_Prices, ma20 \in EO_Prices, current_price \in EO_Prices}

\* C28: whatever the positive close of the call, there are positive MA5,
\* MA20 and current price for which analyze_entry_opportunity returns
\* in_buy_range_1 = True, and there are some for which it returns
\* in_buy_range_2 = True.  (SpecEntry)
C28_RangeFlagsAttainable ==
    arg.close_price # None
    => /\ \E analysis \in EntryAnalyses : analysis.in_buy_range_1
       /\ \E analysis \in EntryAnalyses : analysis.in_buy_range_2

(***************************************************************************)
(* Properties of the risk functions                                        *)
(***************************************************************************)
\* the MA20 that calculate_stop_loss works with: the last value of the
\* column, or buy_price where it is missing
StopLossMA20 == IF notna(MA20Last(arg.frame)) THEN MA20Last(arg.frame) ELSE Frac(arg.buy_price, 1)

\* C13: calculate_stop_loss returns stop_loss = min(MA20 * 0.97,
\* buy_price * 0.97) for every non-breakdown pattern (shakeout, uptrend,
\* unclear) and buy_price * 0.95 for breakdown, so that a non-breakdown
\* stop-loss is never above buy_price * 0.97.  (SpecRisk)
C13_StopLossIsMinOfBoth ==
    (op = "calculate_stop_loss" /\ res # NoDict) =>
        LET bp == Frac(arg.buy_price, 1)
        IN  IF PatternTypeOf(arg.pattern_info) = BREAKDOWN
            THEN res.stop_loss = PyRound(Times(bp, 95, 100))
            ELSE /\ res.stop_loss = PyRound(FracMin(Times(StopLossMA20, 97, 100), Times(bp, 97, 100)))
                 /\ res.stop_loss <= PyRound(Times(bp, 97, 100))

\* C14: for the bullish patterns (uptrend, shakeout) generate_sell_signals
\* returns take_profit_1 = round(buy * 1.06) and take_profit_2 =
\* round(buy * 1.13) when the latest RSI is at most 70 or unavailable, and
\* round(buy * 1.04), round(buy * 1.08) when it is above 70; buy is
\* buy_price, or current_price when buy_price is not given.  (SpecRisk)
C14_BullishTakeProfits ==
    (/\ op = "generate_sell_signals"
     /\ res # NoDict
     /\ PatternTypeOf(arg.pattern_info) \in {UPTREND, SHAKEOUT}) =>
        LET buy == Frac(IF arg.buy_price = None THEN arg.current_price ELSE arg.buy_price, 1)
            rsi == arg.frame.rsi
            hot == rsi \notin {None, NaN} /\ rsi > 70
        IN  /\ res.take_profit_1 = PyRound(Times(buy, IF hot THEN 104 ELSE 106, 100))
            /\ res.take_profit_2 = PyRound(Times(buy, IF hot THEN 108 ELSE 113, 100))

C14_Witness ==
    /\ op = "generate_sell_signals"
    /\ PatternTypeOf(arg.pattern_info) = SHAKEOUT
    /\ arg.frame.rsi = 71
    /\ arg.buy_price = None
    /\ arg.current_price = 104
    /\ res.take_profit_1 = 108
    /\ res.take_profit_2 = 112

\* generate_sell_signals on the call at hand with another latest RSI
SellSignalsAtRsi(rsi) ==
    generate_sell_signals([arg.frame EXCEPT !.rsi = rsi], arg.pattern_info,
                          arg.current_price, arg.buy_price)

\* C29: for every pattern type and buy price, the take-profit targets
\* generate_sell_signals returns with a latest RSI above 70 are not higher
\* than the ones it returns for the same pattern and buy price with a
\* latest RSI of at most 70.  (SpecRisk)
C29_OverheatedTargetsNotHigher ==
    (/\ op = "generate_sell_signals"
     /\ res # NoDict
     /\ Gt(arg.frame.rsi, 70)) =>
        \A rsi \in {r \in RK_RSI \ {None} : Le(r, 70)} :
            /\ res.take_profit_1 <= SellSignalsAtRsi(rsi).take_profit_1
            /\ res.take_profit_2 <= SellSignalsAtRsi(rsi).take_profit_2

\* C15: a consumer whose indicator is null for lack of history abstains
\* instead of computing from a stand-in: calculate_stop_loss gives no price
\* level when the MA20 it needs is null (the stand-in would be buy_price),
\* and assess_overheating gives no verdict when the RSI or the MA20 is
\* missing (the stand-ins would be RSI 50 and a price/MA20 ratio of 100).
\* (SpecRisk)
C15_AbstainOnNullIndicator ==
    /\ (/\ op = "calculate_stop_loss"
         /\ arg.frame.closes # <<>>
         /\ PatternTypeOf(arg.pattern_info) # BREAKDOWN
         /\ ~notna(MA20Last(arg.frame))) =>
            (IF res = NoDict THEN TRUE ELSE res.stop_loss = None)
    /\ (/\ op = "assess_overheating"
         /\ arg.frame.closes # <<>>
         /\ \/ arg.frame.rsi \in {None, NaN}
            \/ ~arg.frame.has_ma20
            \/ ~notna(MA20Last(arg.frame))) =>
            (IF res = NoDict THEN TRUE ELSE res.is_overheated = None)

(***************************************************************************)
(* Properties of the pattern detector                                      *)
(***************************************************************************)
\* the rows the detector looks at, and their last two volumes
RecentRows == TailRows(arg.investor_df, DAYS)
LastVolume == RecentRows[Len(RecentRows)].volume
PrevVolume == RecentRows[Len(RecentRows) - 1].volume
PriceAboveDefinedMA20 ==
    /\ arg.price_df # NoDict
    /\ Len(arg.price_df.closes) >= 20
    /\ 20 * arg.price_df.closes[Len(arg.price_df.closes)] > SumLast(arg.price_df.closes, 20)

\* C16: analyze_investor_pattern returns the shakeout label with confidence
\* 75 whenever the mean foreign net-buy of the last 5 rows is negative, the
\* mean institution net-buy is positive, the last volume is flat or rising
\* against the previous one (change >= -10%) and the latest close is above
\* a defined MA20.  (SpecPattern)
C16_ShakeoutAt75 ==
    (/\ op = "analyze_investor_pattern"
     /\ Len(arg.investor_df) >= 2
     /\ SumColumn(RecentRows, "foreign") < 0
     /\ SumColumn(RecentRows, "institution") > 0
     /\ (LastVolume - PrevVolume) * 100 >= -10 * PrevVolume
     /\ PriceAboveDefinedMA20) =>
        /\ res.pattern_type = SHAKEOUT
        /\ res.confidence = 75

C16_Witness ==
    /\ op = "analyze_investor_pattern"
    /\ Len(arg.investor_df) = 5
    /\ \A k \in 1..5 : arg.investor_df[k].foreign < 0 /\ arg.investor_df[k].institution > 0
    /\ PrevVolume = 100
    /\ LastVolume = 90
    /\ PriceAboveDefinedMA20
    /\ res.pattern_type = SHAKEOUT
    /\ res.confidence = 75

\* one two-row input for each combination of net-buy signs, volume change
\* and price frame
FactorSamples ==
    {[investor_df |-> InvestorRows(0, f, i, 2, f, i, volumes), price_df |-> price_df] :
        f \in NetBuyLevels, i \in NetBuyLevels,
        volumes \in {<<100, 89>>, <<100, 100>>, <<100, 111>>},
        price_df \in {NoDict, PriceFrame(StepSeries(19, 100, 1, 110), TRUE, None),
                      PriceFrame(StepSeries(19, 100, 1, 90), TRUE, None)}}
FactorsOf(result) ==
    <<result.foreign_trend, result.institution_trend, result.volume_trend, result.price_trend>>

\* C17: for a non-empty investor-flow input analyze_investor_pattern returns
\* one of the four labels with a confidence from 50 to 85, and the label and
\* confidence are the same for any two inputs with the same foreign
\* direction, institution direction, volume trend and price-vs-MA20; for a
\* missing or empty input it returns the unclear label with confidence 0.
\* (SpecPattern)
C17_OneLabelFromFactors ==
    op = "analyze_investor_pattern" =>
        IF arg.investor_df = <<>>
        THEN res.pattern_type = UNCLEAR /\ res.confidence = 0
        ELSE /\ res.pattern_type \in {SHAKEOUT, BREAKDOWN, UPTREND, UNCLEAR}
             /\ res.confidence \in 50..85
             /\ \A x \in FactorSamples :
                    LET other == analyze_investor_pattern(x.investor_df, x.price_df)
                    IN  FactorsOf(other) = FactorsOf(res) =>
                            /\ other.pattern_type = res.pattern_type
                            /\ other.confidence = res.confidence
             /\ \E x \in FactorSamples :
                    FactorsOf(analyze_investor_pattern(x.investor_df, x.price_df)) = FactorsOf(res)

C17_Witness ==
    /\ op = "analyze_investor_pattern"
    /\ Len(arg.investor_df) = 7
    /\ arg.investor_df[1].foreign > 0
    /\ FactorsOf(res) = <<T_SELL, T_SELL, V_DOWN, P_NONE>>
    /\ res.pattern_type = BREAKDOWN
    /\ res.confidence = 80

(***************************************************************************)
(* Properties of the indicator engine                                      *)
(***************************************************************************)
MAColumn(df, window) ==
    CASE window = 5 -> df.MA5
      [] window = 20 -> df.MA20
      [] window = 60 -> df.MA60
      [] OTHER -> df.MA120

\* the sum of values[lo..hi], recomputed from the values
RECURSIVE SumRange(_, _, _)
SumRange(values, lo, hi) ==
    IF lo > hi THEN 0
    ELSE IF lo = hi THEN values[lo]
    ELSE LET mid == (lo + hi) \div 2
         IN  SumRange(values, lo, mid) + SumRange(values, mid + 1, hi)

\* C18: for every close sequence and every window w of 5, 20, 60, 120, the
\* MA(w) column produced by calculate_ma and fetch_technical_indicators is
\* null on the first w-1 bars and from bar w on is the arithmetic mean of
\* exactly the trailing w closes.  (SpecIndicators)
C18_MovingAverageIsTrailingMean ==
    op \in {"calculate_ma", "fetch_technical_indicators"} =>
        \A window \in (IF op = "calculate_ma" THEN {5, 20, 60, 120} ELSE {5, 20, 60}) :
            LET column == MAColumn(res, window)
            IN  /\ Len(column) = Len(arg.closes)
                /\ \A i \in 1..Len(column) :
                       IF i < window THEN column[i] = NaN
                       ELSE /\ column[i] # NaN
                            /\ column[i] * window =
                                   PRICE_UNIT * SumRange(arg.closes, i - window + 1, i)

C18_Witness ==
    /\ op = "calculate_ma"
    /\ Len(arg.closes) > 120
    /\ arg.closes[1] # arg.closes[2]
    /\ res.MA120[119] = NaN
    /\ res.MA120[121] # NaN
    /\ res.MA5[4] = NaN
    /\ res.MA5[5] * 5 = PRICE_UNIT * SumRange(arg.closes, 1, 5)

ConstantClose == \A i \in 1..Len(arg.closes) : arg.closes[i] = arg.closes[1]

\* C19: for every price sequence whose close is constant the indicator
\* engine yields an RSI that converges to 50 and a MACD, signal line and
\* histogram that converge to 0: after 20 or more bars the latest RSI is
\* within one point of 50 and the latest MACD values are 0.
\* (SpecIndicators)
C19_ConstantCloseIsNeutral ==
    (ConstantClose /\ Len(arg.closes) >= 20) =>
        /\ op \in {"calculate_rsi", "fetch_technical_indicators"} =>
               LET rsi == LastOf(res.RSI)
               IN  rsi # NaN /\ 49 * RSI_UNIT <= rsi /\ rsi <= 51 * RSI_UNIT
        /\ op \in {"calculate_macd", "kosdaq_calculate_macd"} =>
               /\ LastOf(res.MACD) = 0
               /\ LastOf(res.MACD_Signal) = 0
        /\ op = "kosdaq_calculate_macd" => LastOf(res.MACD_Histogram) = 0

StrictlyRising == \A i \in 2..Len(arg.closes) : arg.closes[i] > arg.closes[i - 1]
HasReason(analysis, label) == \E i \in DOMAIN analysis.reason : analysis.reason[i] = label
\* price * 0.96 in the unit of stop_loss_price (1/100 of 1/PRICE_UNIT)
ScreenedStopLoss == arg.closes[Len(arg.closes)] * PRICE_UNIT * 96

\* C20 as stated: a strictly rising close series of 100 bars run through
\* calculate_ma, calculate_rsi, calculate_macd, build_mode_input and
\* swing.analyze gives entry_signal = True, a reason containing the MACD
\* golden cross, and stop_loss_price = current_price * 0.96.
\* (SpecIndicators)
C20_RisingSeriesEntersSwing ==
    (op = "screen_series" /\ Len(arg.closes) = 100 /\ StrictlyRising) =>
        /\ res.analysis.entry_signal = TRUE
        /\ HasReason(res.analysis, "MACD_golden_cross")
        /\ res.analysis.stop_loss_price = ScreenedStopLoss

\* C20, amended: on a strictly rising close series of 100 bars (of 20 bars
\* or more) no bar has a loss, the RSI saturates at 100 and the swing
\* analyzer reports the exit: entry_signal = False, exit_signal = True, the
\* reason is the RSI overheating alone, and stop_loss_price =
\* current_price * 0.96.  (SpecIndicators)
C20_RisingSeriesExitsSwing ==
    (op = "screen_series" /\ Len(arg.closes) >= 20 /\ StrictlyRising) =>
        /\ res.analysis.entry_signal = FALSE
        /\ res.analysis.exit_signal = TRUE
        /\ res.analysis.reason = <<"RSI_overheated">>
        /\ res.analysis.stop_loss_pct = 4
        /\ res.analysis.stop_loss_price = ScreenedStopLoss

C20_Witness ==
    /\ op = "screen_series"
    /\ Len(arg.closes) = 100
    /\ StrictlyRising
    /\ res.analysis.exit_signal = TRUE
    /\ res.analysis.entry_signal = FALSE
    /\ res.analysis.stop_loss_price = 199 * PRICE_UNIT * 96

(***************************************************************************)
(* Properties of the alert throttle                                        *)
(***************************************************************************)
\* the step is a successful send by process p of the alert at hand
SendSucceeds(p) == pc[p] = "send" /\ pc'[p] = "save_open"

\* the cooldown of an alert: its cooldown_seconds when set and > 0,
\* otherwise the ALERT_COOLDOWN_MINUTES of the configuration
CooldownOf(config, alert) ==
    IF alert.cooldown_seconds # None /\ alert.cooldown_seconds > 0
    THEN alert.cooldown_seconds
    ELSE config.cooldown_minutes * 60

\* C3: within one watcher process whose state path and cooldown
\* configuration have not changed since its previous successful send of a
\* key, a further successful send of that key with once_per_day false comes
\* at least the cooldown after the previous one (the alert's
\* cooldown_seconds when set and > 0, otherwise ALERT_COOLDOWN_MINUTES).
\* (SpecWatcher)
C3_SendsSeparatedByCooldown ==
    [][\A p \in Procs :
          (/\ SendSucceeds(p)
           /\ sendlog[p][KeyOf(p)].last # None
           /\ sendlog[p][KeyOf(p)].clean
           /\ ~Head(pending[p]).once_per_day)
          => now - sendlog[p][KeyOf(p)].last >= CooldownOf(cfg[p], Head(pending[p]))]_vars

\* a key has just been sent a second time under an unchanged configuration,
\* with an alert whose own cooldown_seconds applies
C3_Witness ==
    /\ pc[1] = "save_open"
    /\ sendlog[1][KeyOf(1)].stable
    /\ sendlog[1][KeyOf(1)].last = now
    /\ ~Head(pending[1]).once_per_day
    /\ Head(pending[1]).cooldown_seconds # None
    /\ Head(pending[1]).cooldown_seconds > 0

\* C4: the state file is not locked and a save that completes replaces the
\* whole file by the in-memory state of the saving process alone (or leaves
\* it unreadable when two saves overlap), so that records written by another
\* process and absent from that memory are lost; two processes on one state
\* path thereby can lose a record and send one alert twice within its
\* cooldown, as the witness shows.  (SpecRace)
C4_SaveReplacesWholeFile ==
    [][\A p \in Procs :
          (pc[p] = "save_dump" /\ pc'[p] # "save_dump")
          => file'[st[p].path] \in {JsonFile(mem[p]), UnreadableFile}]_vars

\* process p has written its record of key k to the file, the file now is
\* the whole-file save of process q and does not hold any record of k, and
\* q has sent k less than the cooldown after p sent it
C4_Witness ==
    \E p \in Procs, q \in Procs, k \in Keys :
        /\ p # q
        /\ k \in persisted[p]
        /\ st[p] = st[q]
        /\ file[st[p].path].kind = "json"
        /\ file[st[p].path].data[k] = NoRecord
        /\ file[st[p].path].data = [mem[q] EXCEPT ![k] = NoRecord]
        /\ mem[p][k] # NoRecord
        /\ sendlog[p][k].last # None
        /\ sendlog[q][k].last # None
        /\ sendlog[q][k].last >= sendlog[p][k].last
        /\ sendlog[q][k].last - sendlog[p][k].last < cfg[q].cooldown_minutes * 60

(***************************************************************************)
(* Properties of the watcher loop                                          *)
(***************************************************************************)
\* the positions of run_cycle between the fetch of a code and the next code
InsideCode == {"evaluate", "notify", "send", "send_failed", "save_open", "save_dump"}

\* process p moves to another position or another code
Moves(p) == pc'[p] # pc[p] \/ idx'[p] # idx[p]

\* C21: every iteration of main reads the configuration first and uses it
\* unchanged until the next iteration; the codes are taken in order from
\* the first one, each is fetched, then evaluated, then notified, the sleep
\* begins only when the last code is done, and the next iteration starts
\* from the sleep with the environment as it then is, edits included.
\* (SpecWatcher)
C21_ReloadFetchEvaluateNotifySleep ==
    [][\A p \in Procs :
          /\ (pc[p] = "load_config" /\ Moves(p))
                => /\ pc'[p] = "fetch"
                   /\ idx'[p] = 1
                   /\ cfg'[p] = load_runtime_config(env')
          /\ pc[p] # "load_config" => cfg'[p] = cfg[p]
          /\ (pc'[p] = "fetch" /\ Moves(p) /\ pc[p] # "load_config")
                => pc[p] \in {"fetch"} \cup InsideCode /\ idx'[p] = idx[p] + 1
          /\ (pc'[p] = "evaluate" /\ Moves(p)) => pc[p] = "fetch" /\ idx'[p] = idx[p]
          /\ (pc'[p] = "notify" /\ pc[p] # "notify")
                => pc[p] \in InsideCode /\ idx'[p] = idx[p]
          /\ (pc'[p] = "send" /\ Moves(p)) => pc[p] = "notify" /\ idx'[p] = idx[p]
          /\ (pc'[p] = "end_cycle" /\ Moves(p))
                => pc[p] \in {"fetch"} \cup InsideCode /\ idx[p] = Len(cfg[p].stock_codes)
          /\ (pc'[p] = "sleep" /\ Moves(p)) => pc[p] = "end_cycle"
          /\ (pc'[p] = "load_config" /\ Moves(p)) => pc[p] = "sleep"]_vars

\* in a later iteration the second code is about to be notified under a
\* configuration read from an environment edited since an earlier send
C21_Witness ==
    /\ pc[1] = "send"
    /\ idx[1] = 2
    /\ now > StartTime
    /\ cfg[1] = load_runtime_config(env)
    /\ \E k \in Keys : sendlog[1][k].last # None /\ ~sendlog[1][k].clean

\* the record of the alert at hand in the memory of process p
RecordAtHand(p) == mem[p][KeyOf(p)]

\* should_notify is asked about a once-per-day alert whose stored timestamp
\* has the UTC date of now
SameDateRecord(p) ==
    /\ pc[p] = "notify"
    /\ Head(pending[p]).once_per_day
    /\ RecordAtHand(p) # NoRecord
    /\ DateOf(parse_timestamp(RecordAtHand(p).timestamp)) = DateOf(now)

\* C22 as stated: over any sequence of cycles of one watcher process, a
\* successful send of a once-per-day alert never falls on the UTC date of
\* the previous successful send of its key.  (SpecWatcher)
C22_OneSendPerDate ==
    [][\A p \in Procs :
          (/\ SendSucceeds(p)
           /\ Head(pending[p]).once_per_day
           /\ sendlog[p][KeyOf(p)].last # None)
          => DateOf(now) # DateOf(sendlog[p][KeyOf(p)].last)]_vars

\* C22, amended: should_notify returns False for a once-per-day alert
\* whenever the stored timestamp has the UTC date of now, and within one
\* watcher process whose state path and cooldown configuration have not
\* changed since its previous successful send of a key, a further successful
\* send of that key as a once-per-day alert falls on another UTC date.
\* (SpecWatcher)
C22_OneSendPerDateSameState ==
    [][\A p \in Procs :
          /\ SameDateRecord(p) => pc'[p] # "send"
          /\ (/\ SendSucceeds(p)
              /\ Head(pending[p]).once_per_day
              /\ sendlog[p][KeyOf(p)].last # None
              /\ sendlog[p][KeyOf(p)].clean)
             => DateOf(now) # DateOf(sendlog[p][KeyOf(p)].last)]_vars

\* a once-per-day alert has just been sent for the second time under an
\* unchanged configuration, on the UTC date after the start
C22_Witness ==
    /\ pc[1] = "save_open"
    /\ Head(pending[1]).once_per_day
    /\ sendlog[1][KeyOf(1)].stable
    /\ sendlog[1][KeyOf(1)].last = now
    /\ DateOf(now) = DateOf(StartTime) + 1

FetchFails(p) == pc[p] = "fetch" /\ Moves(p) /\ pc'[p] # "evaluate"

\* C24: when fetch_stock_context returns None for a code, run_cycle goes
\* straight on to the fetch of the next code of the cycle, or to the end of
\* the cycle after the last code; the failed code is not fetched again in
\* that cycle, nothing is sent or recorded for it, and the loop of main
\* goes on.  (SpecWatcher)
C24_FailedFetchIsSkipped ==
    [][\A p \in Procs :
          FetchFails(p)
          => /\ IF idx[p] < Len(cfg[p].stock_codes)
                THEN pc'[p] = "fetch" /\ idx'[p] = idx[p] + 1
                ELSE pc'[p] = "end_cycle" /\ idx'[p] = idx[p]
             /\ mem' = mem
             /\ file' = file
             /\ sendlog' = sendlog]_vars

\* the second code has been fetched and is about to be evaluated in a cycle
\* in which the fetch of the first code failed: the context dict of a rule
\* alert sent in an earlier cycle is still the latest one, so that no code
\* has been evaluated in this cycle
C24_Witness ==
    /\ pc[1] = "evaluate"
    /\ idx[1] = 2
    /\ now > StartTime
    /\ ruleCtx[1] # NoDict

\* C25: when send_telegram_message returns False, run_cycle only logs a
\* warning and goes on to the next alert: the memory of the alert state and
\* the state files are as before, so that should_notify answers for the key
\* as it did; the record of a key changes in memory only by a successful
\* send of that key, which stamps it with the time of the send (or when
\* main rebuilds the AlertState from the file at the top of a cycle).
\* (SpecWatcher)
C25_FailedSendLeavesStateAlone ==
    [][\A p \in Procs :
          /\ (pc[p] = "send" /\ Moves(p) /\ ~SendSucceeds(p))
                => /\ pc'[p] = "send_failed"
                   /\ mem' = mem
                   /\ file' = file
                   /\ pending' = pending
          /\ (pc[p] = "send_failed" /\ Moves(p))
                => /\ mem' = mem
                   /\ file' = file
                   /\ pending'[p] = Tail(pending[p])
                   /\ pc'[p] \in {"notify", "fetch", "end_cycle"}
          /\ (mem'[p] # mem[p] /\ pc[p] # "load_config")
                => /\ SendSucceeds(p)
                   /\ \A k \in Keys \ {KeyOf(p)} : mem'[p][k] = mem[p][k]
                   /\ mem'[p][KeyOf(p)].timestamp = current_timestamp(now)]_vars

\* a send has failed for a key that was sent before: the alert passed
\* should_notify, and the record in memory still is the one of the earlier
\* send
C25_Witness ==
    /\ pc[1] = "send_failed"
    /\ RecordAtHand(1) # NoRecord
    /\ sendlog[1][KeyOf(1)].last # None
    /\ sendlog[1][KeyOf(1)].last < now
    /\ parse_timestamp(RecordAtHand(1).timestamp) = sendlog[1][KeyOf(1)].last
    /\ should_notify(mem[1], st[1].cooldown_minutes, KeyOf(1),
                     Head(pending[1]).cooldown_seconds, Head(pending[1]).once_per_day, now)

\* the time since the timestamp of the record of the alert at hand
SinceRecord(p) == now - parse_timestamp(RecordAtHand(p).timestamp)

\* C26: an alert with once_per_day false that is generated in a cycle goes
\* to the send as soon as the time of its should_notify call is at least the
\* cooldown after the timestamp of its record, and not before; the record
\* never is later than the last successful send of the key by the process.
\* With cycles that recur while time advances the alert therefore is not
\* suppressed beyond the first cycle that comes a cooldown after the last
\* send.  (SpecWatcher)
C26_SentAgainOnceCooldownIsOver ==
    [][\A p \in Procs :
          (pc[p] = "notify" /\ Moves(p) /\ ~Head(pending[p]).once_per_day)
          => /\ pc'[p] = "send"
                    <=> (\/ RecordAtHand(p) = NoRecord
                         \/ SinceRecord(p) >= CooldownOf(cfg[p], Head(pending[p])))
             /\ RecordAtHand(p) # NoRecord
                    => /\ sendlog[p][KeyOf(p)].last # None
                       /\ parse_timestamp(RecordAtHand(p).timestamp) <= sendlog[p][KeyOf(p)].last
             /\ (sendlog[p][KeyOf(p)].clean /\ RecordAtHand(p) # NoRecord)
                    => parse_timestamp(RecordAtHand(p).timestamp) = sendlog[p][KeyOf(p)].last]_vars

\* an alert under the cooldown of ALERT_COOLDOWN_MINUTES goes to the send
\* again exactly one cooldown after its last send, two sleeps later
C26_Witness ==
    /\ pc[1] = "send"
    /\ ~Head(pending[1]).once_per_day
    /\ Head(pending[1]).cooldown_seconds = None
    /\ RecordAtHand(1) # NoRecord
    /\ sendlog[1][KeyOf(1)].clean
    /\ SinceRecord(1) = cfg[1].cooldown_minutes * 60
    /\ now - sendlog[1][KeyOf(1)].last = 2 * MIN_INTERVAL

\* C27: the message_preview stored by a successful send under the key of
\* the alert is the first 80 characters of the message of that alert, also
\* for the alerts of one watch rule sent in the same cycle.  (SpecWatcher)
C27_PreviewIsOwnMessage ==
    [][\A p \in Procs :
          SendSucceeds(p)
          => mem'[p][KeyOf(p)].message_preview = Preview(Head(pending[p]).message)]_vars

====
